---- MODULE Spec2Model ----
(***************************************************************************)
(* EnkiVM: the fetch-execute loop of main.rs (execute) over the            *)
(* Environment of enkienv.rs: operand stack, unification store,            *)
(* choicepoint slot and fresh counter.  stdout is the sequence of the      *)
(* texts written by print.                                                 *)
(*                                                                         *)
(* The program `instrs` is the input of execute.  The instruction fetched  *)
(* at index i is drawn from the instruction set at each iteration; only    *)
(* the program's length is fixed.                                          *)
(***************************************************************************)
EXTENDS Integers, Sequences, FiniteSets, TLC

VARIABLES kind, len, env, i, result, new_env, status, stdout, asm

vars == <<kind, len, env, i, result, new_env, status, stdout, asm>>

(***************************************************************************)
(* Bounds of the model.                                                    *)
(***************************************************************************)
\* Spec: instrs.len(), deepest stack, longest choicepoint chain, largest
\* fresh counter, longest value_disunify list
ProgLen == 5
MaxStack == 2
MaxChoice == 2
MaxFresh == 2
MaxValueDisunify == 0
\* SpecStore: the same, and the deepest nesting of functor terms
StoreLen == 5
StoreStack == 2
StoreChoice == 1
StoreValueDisunify == 1
StoreTermDepth == 1
\* SpecLine: instrs.len() and deepest stack
LineLen == 12
LineStack == 2
\* SpecTerm: instrs.len() of the three families, deepest stack and largest
\* number of nodes of the terms on the stack ("pairs"), deepest stack and
\* longest output ("chain")
PairsLen == 11
PairsStack == 5
PairsWeight == 7
ConstsLen == 3
ChainLen3 == 11
ChainStack == 2
ChainOut == 1
\* deepest structural recursion of unify/disunify followed before the
\* recursion is taken to be non-terminating
MaxRecursion == 6
\* SpecArith
ArithLen == 5
ArithStack == 3
ArithChoice == 1
ArithMax == 9
ArithPow == 3
IndexLen == 7
IndexStack == 4
IndexWeight == 4
\* SpecAsm
AsmLen == 5
MacroLen == 4

(***************************************************************************)
(* stackitem.rs: StackItem and Value.  Every item is a tuple whose first   *)
(* element is the tag.                                                     *)
(***************************************************************************)
Variable(name) == <<"Variable", name>>
IntValue(n) == <<"IntValue", n>>
StringValue(s) == <<"StringValue", s>>
Functor(name, args) == <<"Functor", name, args>>

IsVariable(item) == item[1] = "Variable"
IsIntValue(item) == item[1] = "IntValue"
IsStringValue(item) == item[1] = "StringValue"
IsFunctor(item) == item[1] = "Functor"

\* Option<T>: None is <<>>, Some(x) is <<x>>
None == <<>>
Some(x) == <<x>>

\* format!("T_{}", k) for the counters the model reaches
FreshName(k) == <<"T_0", "T_1", "T_2", "T_3", "T_4", "T_5", "T_6", "T_7">>[k + 1]

(***************************************************************************)
(* unification.rs: Unification::new, and Environment::new.                 *)
(***************************************************************************)
NewUnification ==
    [var_unify |-> {}, var_disunify |-> {}, value_unify |-> None, value_disunify |-> <<>>]

NewEnvironment ==
    [data |-> <<>>, unified |-> <<>>, choicepoint |-> None, fresh_counter |-> 0]

\* Result<(), Err> of an Environment method together with the environment
\* it leaves behind and the texts it wrote; abort marks a recursion that
\* does not return.
Ok(e) == [ok |-> TRUE, abort |-> FALSE, msg |-> "", env |-> e, out |-> <<>>]
Err(msg, e) == [ok |-> FALSE, abort |-> FALSE, msg |-> msg, env |-> e, out |-> <<>>]
Abort(e) == [ok |-> FALSE, abort |-> TRUE, msg |-> "stack overflow", env |-> e, out |-> <<>>]

\* Ok(()) after print!("{}", text)
Wrote(e, text) == [Ok(e) EXCEPT !.out = <<text>>]

\* Result<T, Err> of a query
QOk(v) == [ok |-> TRUE, val |-> <<v>>]
QErr == [ok |-> FALSE, val |-> <<>>]

(***************************************************************************)
(* Stack primitives.                                                       *)
(***************************************************************************)
push(e, new_item) == [e EXCEPT !.data = <<new_item>> \o @]

\* pop: [ok, item, env]
pop(e) ==
    IF e.data = <<>>
    THEN [ok |-> FALSE, item |-> <<>>, env |-> e]
    ELSE [ok |-> TRUE, item |-> Head(e.data), env |-> [e EXCEPT !.data = Tail(@)]]

PopErr == "No items on stack to pop"

(***************************************************************************)
(* The closure template shared by var_value_opt, is_disunified,            *)
(* is_disunified_value, is_unified and is_unified_value: a FIFO queue      *)
(* seeded with one name and a checked set.  Records are visited in order   *)
(* of distance from the seed; the order inside one distance is the         *)
(* iteration order of the HashSets, which is not fixed.  A visit of a name *)
(* without a record returns Err (get_unified).  Layers is the sequence of  *)
(* the sets of names at distance 0, 1, 2, ...                              *)
(***************************************************************************)
RECURSIVE Layers(_, _, _)
Layers(u, frontier, checked) ==
    IF frontier = {}
    THEN <<>>
    ELSE LET seen == checked \cup frontier
             next == UNION {u[v].var_unify : v \in frontier \cap DOMAIN u}
         IN  <<frontier>> \o Layers(u, next \ seen, seen)

\* The names whose visit can be the first one that returns, given the set
\* `decisive` of names whose visit returns.
FirstReturn(u, seed, decisive) ==
    LET ls == Layers(u, {seed}, {})
        hit == {k \in 1..Len(ls) : ls[k] \cap decisive # {}}
    IN  IF hit = {}
        THEN {}
        ELSE ls[CHOOSE k \in hit : \A j \in hit : k <= j] \cap decisive

\* every name a traversal can meet
Names(u, seed) == {seed} \cup DOMAIN u \cup UNION {u[v].var_unify : v \in DOMAIN u}

Missing(u, seed) == {v \in Names(u, seed) : v \notin DOMAIN u}

\* Each query: the set of results the traversal can return.
Query(u, seed, returning, value, default) ==
    LET first == FirstReturn(u, seed, returning \cup Missing(u, seed))
    IN  IF first = {}
        THEN {QOk(default)}
        ELSE {IF v \in returning THEN QOk(value[v]) ELSE QErr : v \in first}

InSeq(x, s) == \E k \in 1..Len(s) : s[k] = x

\* var_value_opt that looks at the record of var_name only
var_value_opt_own(u, var_name) ==
    IF var_name \in DOMAIN u THEN {QOk(u[var_name].value_unify)} ELSE {QErr}

var_value_opt(u, var_name) ==
    LET returning == {v \in DOMAIN u : u[v].value_unify # None}
        value == [v \in returning |-> u[v].value_unify]
    IN  Query(u, var_name, returning, value, None)

is_disunified(u, v1, v2) ==
    LET returning == {v \in DOMAIN u : v1 \in u[v].var_disunify}
        value == [v \in returning |-> TRUE]
    IN  Query(u, v2, returning, value, FALSE)

is_disunified_value(u, v, c) ==
    LET returning == {x \in DOMAIN u :
                         InSeq(c, u[x].value_disunify) \/ u[x].value_unify # None}
        value == [x \in returning |->
                     IF InSeq(c, u[x].value_disunify) THEN TRUE
                     ELSE u[x].value_unify[1] # c]
    IN  Query(u, v, returning, value, FALSE)

is_unified(u, v1, v2) ==
    LET returning == {v \in DOMAIN u : v1 \in u[v].var_unify}
        value == [v \in returning |-> TRUE]
    IN  Query(u, v2, returning, value, FALSE)

\* is_unified_value that returns at value_disunify only, never at value_unify
is_unified_value_blind(u, v, c) ==
    LET returning == {x \in DOMAIN u : InSeq(c, u[x].value_disunify)}
        value == [x \in returning |-> FALSE]
    IN  Query(u, v, returning, value, FALSE)

is_unified_value(u, v, c) ==
    LET returning == {x \in DOMAIN u :
                         InSeq(c, u[x].value_disunify) \/ u[x].value_unify # None}
        value == [x \in returning |->
                     IF InSeq(c, u[x].value_disunify) THEN FALSE
                     ELSE u[x].value_unify[1] = c]
    IN  Query(u, v, returning, value, FALSE)

(***************************************************************************)
(* Store access.                                                           *)
(***************************************************************************)
ensure_unification_exists(e, v) ==
    IF v \in DOMAIN e.unified
    THEN e
    ELSE [e EXCEPT !.unified = (v :> NewUnification) @@ @]

access_unified(e, v) == ensure_unification_exists(e, v)

GetErr == "Unification doesn't exist"

(***************************************************************************)
(* unify                                                                   *)
(***************************************************************************)
unify_with(e, v1, v2) ==
    {IF ~q.ok THEN Err(GetErr, e)
     ELSE IF q.val[1] THEN Err("Could not unify", e)
     ELSE LET a == access_unified(e, v1)
          IN  Ok([a EXCEPT !.unified[v1].var_unify = @ \cup {v2}])
     : q \in is_disunified(e.unified, v1, v2)}

\* is the Option<Value> a Some(Value::Functor(..))
SomeFunctor(opt) == opt # None /\ IsFunctor(opt[1])

RECURSIVE unify_items(_, _, _, _)
RECURSIVE unify_args(_, _, _, _)

\* unify_args that stops after the first pair of arguments
unify_args_first(e, args1, args2, fuel) ==
    IF args1 = <<>> \/ args2 = <<>>
    THEN {Ok(e)}
    ELSE unify_items(e, Head(args1), Head(args2), fuel)

\* for (arg1, arg2) in args1.iter().zip(args2.iter()) { unify_items(..)?; }
\* return Ok(())
unify_args(e, args1, args2, fuel) ==
    IF args1 = <<>> \/ args2 = <<>>
    THEN {Ok(e)}
    ELSE UNION {IF r.ok THEN unify_args(r.env, Tail(args1), Tail(args2), fuel) ELSE {r}
                : r \in unify_items(e, Head(args1), Head(args2), fuel)}

unify_functors(e, f1, f2, fuel) ==
    IF f1[2] # f2[2]
    THEN {Err("functor names don't match", e)}
    ELSE unify_args(e, f1[3], f2[3], fuel)

\* unify_vars with the second unify_with (v2 to v1) left out
unify_vars_one_way(e, v1, v2, fuel) ==
    IF v1 = v2
    THEN {Ok(e)}
    ELSE LET e2 == ensure_unification_exists(ensure_unification_exists(e, v1), v2)
         IN  UNION {IF ~q1.ok \/ ~q2.ok THEN {Err(GetErr, e2)}
                    ELSE IF SomeFunctor(q1.val[1]) /\ SomeFunctor(q2.val[1])
                    THEN unify_functors(e2, q1.val[1][1], q2.val[1][1], fuel)
                    ELSE unify_with(e2, v1, v2)
                    : q1 \in var_value_opt(e2.unified, v1),
                      q2 \in var_value_opt(e2.unified, v2)}

unify_vars(e, v1, v2, fuel) ==
    IF v1 = v2
    THEN {Ok(e)}
    ELSE LET e2 == ensure_unification_exists(ensure_unification_exists(e, v1), v2)
         IN  UNION {IF ~q1.ok \/ ~q2.ok THEN {Err(GetErr, e2)}
                    ELSE IF SomeFunctor(q1.val[1]) /\ SomeFunctor(q2.val[1])
                    THEN unify_functors(e2, q1.val[1][1], q2.val[1][1], fuel)
                    ELSE UNION {IF r.ok THEN unify_with(r.env, v2, v1) ELSE {r}
                                : r \in unify_with(e2, v1, v2)}
                    : q1 \in var_value_opt(e2.unified, v1),
                      q2 \in var_value_opt(e2.unified, v2)}

unify_var_value(e, v, c, fuel) ==
    LET e2 == ensure_unification_exists(e, v)
    IN  UNION {IF ~q.ok THEN {Err(GetErr, e2)}
               ELSE IF SomeFunctor(q.val[1]) /\ IsFunctor(c)
               THEN unify_functors(e2, q.val[1][1], c, fuel)
               ELSE {IF ~d.ok THEN Err(GetErr, e2)
                     ELSE IF d.val[1] THEN Err("Could not unify", e2)
                     ELSE LET a == access_unified(e2, v)
                          IN  Ok([a EXCEPT !.unified[v].value_unify = Some(c)])
                     : d \in is_disunified_value(e2.unified, v, c)}
               : q \in var_value_opt(e2.unified, v)}

\* unify_items that accepts any two values that are not both functors
unify_items_any(e, item1, item2, fuel) ==
    IF fuel = 0 THEN {Abort(e)}
    ELSE IF IsVariable(item1) /\ IsVariable(item2)
    THEN unify_vars(e, item1[2], item2[2], fuel - 1)
    ELSE IF IsVariable(item1) THEN unify_var_value(e, item1[2], item2, fuel - 1)
    ELSE IF IsVariable(item2) THEN unify_var_value(e, item2[2], item1, fuel - 1)
    ELSE IF IsFunctor(item1) /\ IsFunctor(item2)
    THEN unify_functors(e, item1, item2, fuel - 1)
    ELSE {Ok(e)}

unify_items(e, item1, item2, fuel) ==
    IF fuel = 0 THEN {Abort(e)}
    ELSE IF IsVariable(item1) /\ IsVariable(item2)
    THEN unify_vars(e, item1[2], item2[2], fuel - 1)
    ELSE IF IsVariable(item1) THEN unify_var_value(e, item1[2], item2, fuel - 1)
    ELSE IF IsVariable(item2) THEN unify_var_value(e, item2[2], item1, fuel - 1)
    ELSE IF IsFunctor(item1) /\ IsFunctor(item2)
    THEN unify_functors(e, item1, item2, fuel - 1)
    ELSE IF item1 = item2 THEN {Ok(e)}
    ELSE {Err("Cannot unify values", e)}

unify(e) ==
    LET p1 == pop(e)
        p2 == pop(p1.env)
    IN  IF ~p1.ok THEN {Err(PopErr, p1.env)}
        ELSE IF ~p2.ok THEN {Err(PopErr, p2.env)}
        ELSE unify_items(p2.env, p1.item, p2.item, MaxRecursion)

(***************************************************************************)
(* disunify                                                                *)
(***************************************************************************)
\* disunify_with without the is_unified test
disunify_with_unchecked(e, v1, v2) ==
    LET a == access_unified(e, v1)
    IN  {Ok([a EXCEPT !.unified[v1].var_disunify = @ \cup {v2}])}

disunify_with(e, v1, v2) ==
    {IF ~q.ok THEN Err(GetErr, e)
     ELSE IF q.val[1] THEN Err("Could not disunify", e)
     ELSE LET a == access_unified(e, v1)
          IN  Ok([a EXCEPT !.unified[v1].var_disunify = @ \cup {v2}])
     : q \in is_unified(e.unified, v1, v2)}

RECURSIVE disunify_items(_, _, _, _)
RECURSIVE disunify_args(_, _, _, _)

disunify_args(e, args1, args2, fuel) ==
    IF args1 = <<>> \/ args2 = <<>>
    THEN {Ok(e)}
    ELSE UNION {IF r.ok THEN disunify_args(r.env, Tail(args1), Tail(args2), fuel) ELSE {r}
                : r \in disunify_items(e, Head(args1), Head(args2), fuel)}

disunify_functors(e, f1, f2, fuel) ==
    IF f1[2] # f2[2]
    THEN {Ok(e)}
    ELSE disunify_args(e, f1[3], f2[3], fuel)

\* disunify_vars with the second disunify_with (v2 to v1) left out
disunify_vars_one_way(e, v1, v2, fuel) ==
    IF v1 = v2
    THEN {Ok(e)}
    ELSE LET e2 == ensure_unification_exists(ensure_unification_exists(e, v1), v2)
         IN  UNION {IF ~q1.ok \/ ~q2.ok THEN {Err(GetErr, e2)}
                    ELSE IF SomeFunctor(q1.val[1]) /\ SomeFunctor(q2.val[1])
                    THEN disunify_functors(e2, q1.val[1][1], q2.val[1][1], fuel)
                    ELSE disunify_with(e2, v1, v2)
                    : q1 \in var_value_opt(e2.unified, v1),
                      q2 \in var_value_opt(e2.unified, v2)}

disunify_vars(e, v1, v2, fuel) ==
    IF v1 = v2
    THEN {Ok(e)}
    ELSE LET e2 == ensure_unification_exists(ensure_unification_exists(e, v1), v2)
         IN  UNION {IF ~q1.ok \/ ~q2.ok THEN {Err(GetErr, e2)}
                    ELSE IF SomeFunctor(q1.val[1]) /\ SomeFunctor(q2.val[1])
                    THEN disunify_functors(e2, q1.val[1][1], q2.val[1][1], fuel)
                    ELSE UNION {IF r.ok THEN disunify_with(r.env, v2, v1) ELSE {r}
                                : r \in disunify_with(e2, v1, v2)}
                    : q1 \in var_value_opt(e2.unified, v1),
                      q2 \in var_value_opt(e2.unified, v2)}

disunify_var_value(e, v, c, fuel) ==
    LET e2 == ensure_unification_exists(e, v)
    IN  UNION {IF ~q.ok THEN {Err(GetErr, e2)}
               ELSE IF SomeFunctor(q.val[1]) /\ IsFunctor(c)
               THEN disunify_functors(e2, q.val[1][1], c, fuel)
               ELSE {IF ~d.ok THEN Err(GetErr, e2)
                     ELSE IF d.val[1] THEN Err("Could not unify", e2)
                     ELSE LET a == access_unified(e2, v)
                          IN  Ok([a EXCEPT !.unified[v].value_disunify = Append(@, c)])
                     : d \in is_unified_value(e2.unified, v, c)}
               : q \in var_value_opt(e2.unified, v)}

disunify_items(e, item1, item2, fuel) ==
    IF fuel = 0 THEN {Abort(e)}
    ELSE IF IsVariable(item1) /\ IsVariable(item2)
    THEN disunify_vars(e, item1[2], item2[2], fuel - 1)
    ELSE IF IsVariable(item1) THEN disunify_var_value(e, item1[2], item2, fuel - 1)
    ELSE IF IsVariable(item2) THEN disunify_var_value(e, item2[2], item1, fuel - 1)
    ELSE IF IsFunctor(item1) /\ IsFunctor(item2)
    THEN disunify_functors(e, item1, item2, fuel - 1)
    ELSE IF item1 # item2 THEN {Ok(e)}
    ELSE {Err("Cannot disunify values", e)}

disunify(e) ==
    LET p1 == pop(e)
        p2 == pop(p1.env)
    IN  IF ~p1.ok THEN {Err(PopErr, p1.env)}
        ELSE IF ~p2.ok THEN {Err(PopErr, p2.env)}
        ELSE disunify_items(p2.env, p1.item, p2.item, MaxRecursion)

(***************************************************************************)
(* Integer operands.  A BigInt that TLC represents is IntValue(n); one of  *)
(* 2^31 and more in magnitude is WideInt(sign, bytes), with the bytes of   *)
(* its magnitude in little-endian order and no zero byte at the end.  A    *)
(* usize is the array of its eight little-endian bytes.                    *)
(***************************************************************************)
WideInt(int_sign, bytes) == <<"IntValue", int_sign, bytes>>

IsWide(int) == Len(int) = 3

\* BigInt::to_bytes_le: the sign and the bytes of the magnitude
RECURSIVE BytesOf(_)
BytesOf(n) == IF n < 256 THEN <<n>> ELSE <<n % 256>> \o BytesOf(n \div 256)

sign(int) ==
    IF IsWide(int) THEN int[2]
    ELSE IF int[2] < 0 THEN "Minus"
    ELSE IF int[2] = 0 THEN "NoSign"
    ELSE "Plus"

to_bytes_le(int) ==
    IF IsWide(int) THEN int[3]
    ELSE BytesOf(IF int[2] < 0 THEN -int[2] ELSE int[2])

\* popint: the set of [ok, msg, val, env] it can return; val is the integer
popint(e) ==
    LET p == pop(e)
        TypeErr == "Top stack item was not an integer"
        none == IntValue(0)
    IN  IF ~p.ok THEN {[ok |-> FALSE, msg |-> PopErr, val |-> none, env |-> p.env]}
        ELSE IF IsIntValue(p.item)
        THEN {[ok |-> TRUE, msg |-> "", val |-> p.item, env |-> p.env]}
        ELSE IF IsVariable(p.item)
        THEN {IF ~q.ok
              THEN [ok |-> FALSE, msg |-> GetErr, val |-> none, env |-> p.env]
              ELSE IF q.val[1] = None
              THEN [ok |-> FALSE, msg |-> "No value found", val |-> none, env |-> p.env]
              ELSE IF IsIntValue(q.val[1][1])
              THEN [ok |-> TRUE, msg |-> "", val |-> q.val[1][1], env |-> p.env]
              ELSE [ok |-> FALSE, msg |-> TypeErr, val |-> none, env |-> p.env]
              : q \in var_value_opt(p.env.unified, p.item[2])}
        ELSE {[ok |-> FALSE, msg |-> TypeErr, val |-> none, env |-> p.env]}

\* le_bytes_to_usize that takes at most four bytes
le_bytes_to_usize_four(le_bytes) ==
    IF Len(le_bytes) > 4
    THEN [ok |-> FALSE, val |-> <<>>]
    ELSE [ok |-> TRUE,
          val |-> [k \in 1..8 |-> IF k <= Len(le_bytes) THEN le_bytes[k] ELSE 0]]

\* le_bytes_to_usize: new_arr, the eight bytes handed to usize::from_le_bytes
le_bytes_to_usize(le_bytes) ==
    IF Len(le_bytes) > 8
    THEN [ok |-> FALSE, val |-> <<>>]
    ELSE [ok |-> TRUE,
          val |-> [k \in 1..8 |-> IF k <= Len(le_bytes) THEN le_bytes[k] ELSE 0]]

\* the usize is one that TLC represents as an integer (below 2^31)
UsizeFits(idx) == idx[4] < 128 /\ \A k \in 5..8 : idx[k] = 0

\* ... and that integer
UsizeNat(idx) == idx[1] + 256 * idx[2] + 65536 * idx[3] + 16777216 * idx[4]

\* popidx: [ok, msg, val, env], val the usize
popidx(e) ==
    {IF ~r.ok THEN [r EXCEPT !.val = <<>>]
     ELSE IF sign(r.val) = "Minus"
     THEN [r EXCEPT !.ok = FALSE, !.val = <<>>,
                    !.msg = "Functor indices must be nonnegative integers!"]
     ELSE LET u == le_bytes_to_usize(to_bytes_le(r.val))
          IN  IF ~u.ok
              THEN [r EXCEPT !.ok = FALSE, !.val = <<>>, !.msg = "Index is too large!"]
              ELSE [r EXCEPT !.val = u.val]
     : r \in popint(e)}

(***************************************************************************)
(* Arithmetic and comparisons.  BigInt arithmetic is computed on the       *)
(* integers TLC represents.                                                *)
(***************************************************************************)
\* let a = self.popint()?; let b = self.popint()?;
popint2(e) ==
    UNION {IF ~r1.ok
           THEN {[ok |-> FALSE, msg |-> r1.msg, a |-> 0, b |-> 0, env |-> r1.env]}
           ELSE {[ok |-> r2.ok, msg |-> r2.msg, a |-> r1.val[2], b |-> r2.val[2],
                  env |-> r2.env] : r2 \in popint(r1.env)}
           : r1 \in popint(e)}

\* the panic of an instruction: the process ends outside execute's loop
Panic(e, msg) == [Abort(e) EXCEPT !.msg = msg]

\* BigInt division: the quotient truncated toward zero
TruncDiv(a, b) ==
    LET q == (IF a < 0 THEN -a ELSE a) \div (IF b < 0 THEN -b ELSE b)
    IN  IF (a < 0) = (b < 0) THEN q ELSE -q

\* a.pow(b) for b >= 0
RECURSIVE Power(_, _)
Power(a, b) == IF b = 0 THEN 1 ELSE a * Power(a, b - 1)

add(e) ==
    {IF ~r.ok THEN Err(r.msg, r.env) ELSE Ok(push(r.env, IntValue(r.a + r.b)))
     : r \in popint2(e)}

\* sub that subtracts the first-popped from the second-popped
sub_swapped(e) ==
    {IF ~r.ok THEN Err(r.msg, r.env) ELSE Ok(push(r.env, IntValue(r.b - r.a)))
     : r \in popint2(e)}

sub(e) ==
    {IF ~r.ok THEN Err(r.msg, r.env) ELSE Ok(push(r.env, IntValue(r.a - r.b)))
     : r \in popint2(e)}

div(e) ==
    {IF ~r.ok THEN Err(r.msg, r.env)
     ELSE IF r.b = 0 THEN Panic(r.env, "attempt to divide by zero")
     ELSE Ok(push(r.env, IntValue(TruncDiv(r.a, r.b))))
     : r \in popint2(e)}

mul(e) ==
    {IF ~r.ok THEN Err(r.msg, r.env) ELSE Ok(push(r.env, IntValue(r.a * r.b)))
     : r \in popint2(e)}

\* pow with the operands in the other roles: second-popped to the power of
\* first-popped
pow_swapped(e) ==
    {IF ~r.ok THEN Err(r.msg, r.env)
     ELSE IF r.a < 0 THEN Err("Cannot raise to a negative power", r.env)
     ELSE Ok(push(r.env, IntValue(Power(r.b, r.a))))
     : r \in popint2(e)}

pow(e) ==
    {IF ~r.ok THEN Err(r.msg, r.env)
     ELSE IF r.b < 0 THEN Err("Cannot raise to a negative power", r.env)
     ELSE Ok(push(r.env, IntValue(Power(r.a, r.b))))
     : r \in popint2(e)}

\* lt with the operands compared the other way round
lt_swapped(e) ==
    {IF ~r.ok THEN Err(r.msg, r.env)
     ELSE IF r.b < r.a THEN Ok(r.env) ELSE Err("not less than", r.env)
     : r \in popint2(e)}

lt(e) ==
    {IF ~r.ok THEN Err(r.msg, r.env)
     ELSE IF r.a < r.b THEN Ok(r.env) ELSE Err("not less than", r.env)
     : r \in popint2(e)}

gt(e) ==
    {IF ~r.ok THEN Err(r.msg, r.env)
     ELSE IF r.a > r.b THEN Ok(r.env) ELSE Err("not less than", r.env)
     : r \in popint2(e)}

lte(e) ==
    {IF ~r.ok THEN Err(r.msg, r.env)
     ELSE IF r.a <= r.b THEN Ok(r.env) ELSE Err("not less than", r.env)
     : r \in popint2(e)}

gte(e) ==
    {IF ~r.ok THEN Err(r.msg, r.env)
     ELSE IF r.a >= r.b THEN Ok(r.env) ELSE Err("not less than", r.env)
     : r \in popint2(e)}

(***************************************************************************)
(* rot                                                                     *)
(***************************************************************************)
\* rot that pushes the three items back as they were
rot_identity(e) ==
    IF Len(e.data) < 3 THEN {Err(PopErr, [e EXCEPT !.data = <<>>])} ELSE {Ok(e)}

rot(e) ==
    LET c == pop(e)
        b == pop(c.env)
        a == pop(b.env)
    IN  IF ~c.ok THEN {Err(PopErr, c.env)}
        ELSE IF ~b.ok THEN {Err(PopErr, b.env)}
        ELSE IF ~a.ok THEN {Err(PopErr, a.env)}
        ELSE {Ok(push(push(push(a.env, c.item), a.item), b.item))}

(***************************************************************************)
(* functor                                                                 *)
(***************************************************************************)
\* for _i in 0..num { items.push(self.pop()?); }
RECURSIVE pop_items(_, _, _)
pop_items(e, num, items) ==
    IF num = 0
    THEN [ok |-> TRUE, items |-> items, env |-> e]
    ELSE LET p == pop(e)
         IN  IF ~p.ok THEN [ok |-> FALSE, items |-> items, env |-> p.env]
             ELSE pop_items(p.env, num - 1, Append(items, p.item))

functor(e) ==
    LET p == pop(e)
    IN  IF ~p.ok THEN {Err(PopErr, p.env)}
        ELSE IF ~IsStringValue(p.item) THEN {Err("Functor name must be a string", p.env)}
        ELSE {IF ~n.ok THEN Err(n.msg, n.env)
              ELSE LET num == IF UsizeFits(n.val) THEN UsizeNat(n.val)
                              ELSE Len(n.env.data) + 1
                       r == pop_items(n.env, num, <<>>)
                   IN  IF ~r.ok THEN Err(PopErr, r.env)
                       ELSE Ok(push(r.env, Functor(p.item[2], r.items)))
              : n \in popidx(p.env)}

\* project that counts the arguments from one
project_from_one(e) ==
    {IF ~n.ok THEN Err(n.msg, n.env)
     ELSE LET p == pop(n.env)
          IN  IF ~p.ok THEN Err(PopErr, p.env)
              ELSE IF ~IsFunctor(p.item) THEN Err("Cannot index into a non-functor", p.env)
              ELSE IF UsizeFits(n.val) /\ 1 <= UsizeNat(n.val) /\ UsizeNat(n.val) <= Len(p.item[3])
              THEN Ok(push(p.env, p.item[3][UsizeNat(n.val)]))
              ELSE Err("Functor has fewer arguments", p.env)
     : n \in popidx(e)}

project(e) ==
    {IF ~n.ok THEN Err(n.msg, n.env)
     ELSE LET p == pop(n.env)
          IN  IF ~p.ok THEN Err(PopErr, p.env)
              ELSE IF ~IsFunctor(p.item) THEN Err("Cannot index into a non-functor", p.env)
              ELSE IF UsizeFits(n.val) /\ UsizeNat(n.val) < Len(p.item[3])
              THEN Ok(push(p.env, p.item[3][UsizeNat(n.val) + 1]))
              ELSE Err("Functor has fewer arguments", p.env)
     : n \in popidx(e)}

(***************************************************************************)
(* print, with the Display of stackitem.rs.                                *)
(***************************************************************************)
RECURSIVE Display(_)
RECURSIVE JoinArgs(_)

\* str_args.join(", ")
JoinArgs(args) ==
    IF args = <<>> THEN ""
    ELSE IF Len(args) = 1 THEN Display(args[1])
    ELSE Display(args[1]) \o ", " \o JoinArgs(Tail(args))

Display(item) ==
    IF IsVariable(item) THEN item[2]
    ELSE IF IsIntValue(item) THEN ToString(item[2])
    ELSE IF IsStringValue(item) THEN item[2]
    ELSE item[2] \o "(" \o JoinArgs(item[3]) \o ")"

print(e) ==
    LET p == pop(e)
    IN  IF ~p.ok THEN {Err(PopErr, p.env)}
        ELSE IF IsVariable(p.item)
        THEN {IF ~q.ok THEN Err(GetErr, p.env)
              ELSE IF q.val[1] # None THEN Wrote(p.env, Display(q.val[1][1]))
              ELSE Wrote(p.env, p.item[2])
              : q \in var_value_opt(p.env.unified, p.item[2])}
        ELSE {Wrote(p.env, Display(p.item))}

\* destroy that clears the stack with the store
destroy_all(e) == {Ok([e EXCEPT !.unified = <<>>, !.data = <<>>])}

\* destroy: clears every record of the store, the stack is left alone
destroy(e) == {Ok([e EXCEPT !.unified = <<>>])}

(***************************************************************************)
(* What a specification explores of an environment.                        *)
(***************************************************************************)
RECURSIVE TermDepth(_)
TermDepth(item) ==
    IF ~IsFunctor(item) THEN 0
    ELSE LET ds == {TermDepth(item[3][k]) : k \in 1..Len(item[3])}
         IN  1 + (IF ds = {} THEN 0 ELSE CHOOSE d \in ds : \A x \in ds : x <= d)

RECURSIVE ChainLen(_)
ChainLen(cp) == IF cp = None THEN 0 ELSE 1 + ChainLen(cp[2].choicepoint)

\* the number of nodes of the terms of a stack
RECURSIVE Weight(_)
Weight(items) ==
    IF items = <<>> THEN 0
    ELSE (IF IsFunctor(Head(items)) THEN 1 + Weight(Head(items)[3]) ELSE 1)
         + Weight(Tail(items))

Explored(e, stack, chain, fresh, disunified, depth) ==
    /\ Len(e.data) <= stack
    /\ e.fresh_counter <= fresh
    /\ ChainLen(e.choicepoint) <= chain
    /\ \A k \in 1..Len(e.data) : TermDepth(e.data[k]) <= depth
    /\ \A v \in DOMAIN e.unified : Len(e.unified[v].value_disunify) <= disunified

(***************************************************************************)
(* macrolang.rs and instr.rs: the lines of a source file as                *)
(* parse_macro_instr returns them, and the statements of a macro program.  *)
(***************************************************************************)
Lit(instr) == <<"Lit", instr>>
Label(name) == <<"Label", name>>
Position(name) == <<"Position", name>>
Quote(split) == <<"Quote", split>>
Noop == <<"Noop">>

Simple(instr) == <<"Simple", instr>>
Call(name, body) == <<"Call", name, body>>
CallMacro(name, args) == <<"CallMacro", name, args>>
Macro(name, args, stmts) == <<"Macro", name, args, stmts>>

\* a line whose opcode parse_macro_instr does not know
Garbage == <<"Garbage">>

\* parse_macro_instr, on lines kept as what they denote
parse_macro_instr(line_str) == IF line_str = Garbage THEN None ELSE Some(line_str)

\* instructions as data: Instr::Pop, Instr::Goto, Instr::Int, Instr::Var
PopInstr == <<"Pop">>
GotoInstr == <<"Goto">>
IntInstr(n) == <<"Int", n>>
VarInstr(name) == <<"Var", name>>

\* HashMap::insert on a map kept as a function
Insert(map, key, value) ==
    [x \in DOMAIN map \cup {key} |-> IF x = key THEN value ELSE map[x]]

\* Vec::insert at a zero-based index
InsertAt(vec, index, element) ==
    SubSeq(vec, 1, index) \o <<element>> \o SubSeq(vec, index + 1, Len(vec))

\* the locals of MacroProgram::execute (statements .. macros) and of
\* load_instrs (lines .. error); read and inserted count the iterations of
\* load_instrs' two loops
NoAsm ==
    [phase |-> "none", statements |-> <<>>, result |-> <<>>, new_result |-> <<>>,
     fresh_counter |-> 0, macros |-> <<>>, lines |-> <<>>, read |-> 0,
     instrs |-> <<>>, locations |-> <<>>, positions |-> <<>>, inserted |-> 0,
     error |-> FALSE]

lookup(v, subs_map) == IF v \in DOMAIN subs_map THEN subs_map[v] ELSE v

instr_substitute(instr, subs_map) ==
    IF instr[1] = "Var" THEN VarInstr(lookup(instr[2], subs_map)) ELSE instr

macro_instr_substitute(m, subs_map) ==
    IF m[1] = "Lit" THEN Lit(instr_substitute(m[2], subs_map))
    ELSE IF m[1] = "Label" THEN Label(lookup(m[2], subs_map))
    ELSE IF m[1] = "Position" THEN Position(lookup(m[2], subs_map))
    ELSE IF m[1] = "Quote" THEN Quote([k \in 1..Len(m[2]) |-> lookup(m[2][k], subs_map)])
    ELSE m

RECURSIVE substitute(_, _)
substitute(stmt, subs_map) ==
    IF stmt[1] = "Simple" THEN Simple(macro_instr_substitute(stmt[2], subs_map))
    ELSE IF stmt[1] = "Call"
    THEN Call(lookup(stmt[2], subs_map),
              [k \in 1..Len(stmt[3]) |-> macro_instr_substitute(stmt[3][k], subs_map)])
    ELSE IF stmt[1] = "CallMacro"
    THEN CallMacro(lookup(stmt[2], subs_map),
                   [k \in 1..Len(stmt[3]) |-> lookup(stmt[3][k], subs_map)])
    ELSE Macro(lookup(stmt[2], subs_map),
               [k \in 1..Len(stmt[3]) |-> lookup(stmt[3][k], subs_map)],
               [k \in 1..Len(stmt[4]) |-> substitute(stmt[4][k], subs_map)])

\* format!("label_{}", fresh_counter), with the new counter
fresh_label(fresh_counter) == <<fresh_counter + 1, "label_" \o ToString(fresh_counter)>>

\* the zip of names and values; a later pair replaces an earlier one
make_subs_map(arg_names, arg_vals) ==
    LET n == IF Len(arg_names) < Len(arg_vals) THEN Len(arg_names) ELSE Len(arg_vals)
    IN  [x \in {arg_names[k] : k \in 1..n} |->
            arg_vals[CHOOSE k \in 1..n :
                         arg_names[k] = x /\ \A j \in (k + 1)..n : arg_names[j] # x]]

\* Some(instructions) when every statement is simple, else None
from_simple(stmts) ==
    IF \A k \in 1..Len(stmts) : stmts[k][1] = "Simple"
    THEN Some([k \in 1..Len(stmts) |-> stmts[k][2]])
    ELSE None

(***************************************************************************)
(* execute: one iteration of the loop.  `o` is the value of `result` with  *)
(* the environment the instruction left, `next` the value of i after the   *)
(* match.                                                                  *)
(***************************************************************************)
\* Rollback that leaves the variable store as the failure left it
Rollback_keep_store(e, snapshot) ==
    [e EXCEPT !.data = snapshot.data,
              !.choicepoint = snapshot.choicepoint]

\* Rollback that takes the whole snapshot, the fresh counter included
Rollback_whole(e, snapshot) == snapshot

\* main.rs 92-94: the three fields taken from the snapshot
Rollback(e, snapshot) ==
    [e EXCEPT !.data = snapshot.data,
              !.unified = snapshot.unified,
              !.choicepoint = snapshot.choicepoint]

\* i >= instrs.len() => break
Halt(idx) == IF idx >= len THEN "ok" ELSE "running"

\* Iterate that never consults the choicepoint slot
Iterate_no_rollback(o, next) ==
    /\ status = "running"
    /\ i < len
    /\ result' = [ok |-> o.ok, msg |-> o.msg]
    /\ len' = len
    /\ kind' = kind
    /\ stdout' = stdout \o o.out
    /\ asm' = asm
    /\ env' = o.env
    /\ i' = next
    /\ new_env' = None
    /\ status' = IF o.abort THEN "abort" ELSE IF ~o.ok THEN "err" ELSE Halt(next)

Iterate(o, next) ==
    /\ status = "running"
    /\ i < len
    /\ result' = [ok |-> o.ok, msg |-> o.msg]
    /\ len' = len
    /\ kind' = kind
    /\ stdout' = stdout \o o.out
    /\ asm' = asm
    /\ IF o.abort
       THEN /\ env' = o.env
            /\ i' = next
            /\ new_env' = None
            /\ status' = "abort"
       ELSE IF ~o.ok
       THEN IF o.env.choicepoint # None
            THEN /\ env' = Rollback(o.env, o.env.choicepoint[2])
                 /\ i' = o.env.choicepoint[1]
                 /\ new_env' = Some(o.env.choicepoint[2])
                 /\ status' = Halt(o.env.choicepoint[1])
            ELSE /\ env' = o.env
                 /\ i' = next
                 /\ new_env' = None
                 /\ status' = "err"
       ELSE /\ env' = o.env
            /\ i' = next
            /\ new_env' = None
            /\ status' = Halt(next)

\* instrs[i] with i >= instrs.len(): the indexing panics
FetchPanic ==
    /\ status = "running"
    /\ i >= len
    /\ status' = "abort"
    /\ result' = [ok |-> FALSE, msg |-> "index out of bounds"]
    /\ UNCHANGED <<kind, len, env, i, new_env, stdout, asm>>

InstrVar(var_name) == Iterate(Ok(push(env, Variable(var_name))), i + 1)

InstrInt(n) == Iterate(Ok(push(env, IntValue(n))), i + 1)

InstrStr(s) == Iterate(Ok(push(env, StringValue(s))), i + 1)

InstrFresh ==
    LET fresh_var_name == FreshName(env.fresh_counter)
        e == [env EXCEPT !.fresh_counter = @ + 1]
    IN  Iterate(Ok(push(e, Variable(fresh_var_name))), i + 1)

InstrFail == Iterate(Err("fail", env), i + 1)

InstrPrint == \E o \in print(env) : Iterate(o, i + 1)

InstrUnify == \E o \in unify(env) : Iterate(o, i + 1)

InstrDisunify == \E o \in disunify(env) : Iterate(o, i + 1)

InstrPop ==
    LET p == pop(env)
    IN  Iterate(IF p.ok THEN Ok(p.env) ELSE Err(PopErr, p.env), i + 1)

InstrFunctor == \E o \in functor(env) : Iterate(o, i + 1)

InstrProject == \E o \in project(env) : Iterate(o, i + 1)

InstrAdd == \E o \in add(env) : Iterate(o, i + 1)

InstrSub == \E o \in sub(env) : Iterate(o, i + 1)

InstrMul == \E o \in mul(env) : Iterate(o, i + 1)

InstrDiv == \E o \in div(env) : Iterate(o, i + 1)

InstrPow == \E o \in pow(env) : Iterate(o, i + 1)

InstrLt == \E o \in lt(env) : Iterate(o, i + 1)

InstrGt == \E o \in gt(env) : Iterate(o, i + 1)

InstrLte == \E o \in lte(env) : Iterate(o, i + 1)

InstrGte == \E o \in gte(env) : Iterate(o, i + 1)

InstrRot == \E o \in rot(env) : Iterate(o, i + 1)

\* Instr::Int with a BigInt of 2^31 and more in magnitude
InstrWide(int_sign, bytes) == Iterate(Ok(push(env, WideInt(int_sign, bytes))), i + 1)

InstrDestroy == \E o \in destroy(env) : Iterate(o, i + 1)

\* (an index of 2^31 and more is not followed)
InstrGoto ==
    \E r \in popidx(env) :
        IF r.ok
        THEN UsizeFits(r.val) /\ Iterate(Ok(r.env), UsizeNat(r.val))
        ELSE Iterate(Err(r.msg, r.env), i + 1)

\* gotochoice whose snapshot does not keep the older choicepoint
InstrGotoChoice_flat ==
    \E r \in popidx(env) :
        IF r.ok
        THEN /\ UsizeFits(r.val)
             /\ Iterate(Ok([r.env EXCEPT !.choicepoint =
                    <<UsizeNat(r.val), [r.env EXCEPT !.choicepoint = None]>>]), i + 1)
        ELSE Iterate(Err(r.msg, r.env), i + 1)

\* gotochoice that also continues at the index
InstrGotoChoice_jump ==
    \E r \in popidx(env) :
        IF r.ok
        THEN /\ UsizeFits(r.val)
             /\ Iterate(Ok([r.env EXCEPT !.choicepoint = <<UsizeNat(r.val), r.env>>]),
                        UsizeNat(r.val))
        ELSE Iterate(Err(r.msg, r.env), i + 1)

InstrGotoChoice ==
    \E r \in popidx(env) :
        IF r.ok
        THEN /\ UsizeFits(r.val)
             /\ Iterate(Ok([r.env EXCEPT !.choicepoint = <<UsizeNat(r.val), r.env>>]), i + 1)
        ELSE Iterate(Err(r.msg, r.env), i + 1)

\* execute before the first iteration, on a program of n instructions
\* drawn from the family k of programs
Start(k, n) ==
    /\ kind = k
    /\ len = n
    /\ env = NewEnvironment
    /\ i = 0
    /\ result = [ok |-> TRUE, msg |-> ""]
    /\ new_env = None
    /\ status = "running"
    /\ stdout = <<>>
    /\ asm = NoAsm

(***************************************************************************)
(* Spec: control.  Programs of ProgLen instructions over fresh variables   *)
(* and the integers 0 and 1 (as values and as indices), with every control *)
(* instruction.                                                            *)
(***************************************************************************)
IntArgs == {0, 1}

Init == Start("control", ProgLen)

Bound == Explored(env', MaxStack, MaxChoice, MaxFresh, MaxValueDisunify, 0)

Next ==
    \/ \E n \in IntArgs : InstrInt(n) /\ Bound
    \/ InstrFresh /\ Bound
    \/ InstrFail /\ Bound
    \/ InstrUnify /\ Bound
    \/ InstrDisunify /\ Bound
    \/ InstrPop /\ Bound
    \/ InstrDestroy /\ Bound
    \/ InstrGoto /\ Bound
    \/ InstrGotoChoice /\ Bound

Spec == Init /\ [][Next]_vars

(***************************************************************************)
(* SpecFetch: the fetch of the interpreter loop, on the programs of 0 to   *)
(* FetchLen instructions over the integers FetchInts (indices inside and   *)
(* past the end of every such program), pop, fail, goto and gotochoice.    *)
(***************************************************************************)
FetchLen == 3
FetchStack == 2
FetchChoice == 1

FetchInts == {0, 2, FetchLen + 1}

InitFetch == \E n \in 0..FetchLen : Start("fetch", n)

FetchBound == Explored(env', FetchStack, FetchChoice, 0, 0, 0)

NextFetch ==
    \/ FetchPanic
    \/ \E n \in FetchInts : InstrInt(n) /\ FetchBound
    \/ InstrPop /\ FetchBound
    \/ InstrFail /\ FetchBound
    \/ InstrGoto /\ FetchBound
    \/ InstrGotoChoice /\ FetchBound

SpecFetch == InitFetch /\ [][NextFetch]_vars

(***************************************************************************)
(* SpecStore: the constraint store, on four families of programs of        *)
(* StoreLen instructions: "backtrack" (two variables, one integer,         *)
(* destroy, choicepoints and failures), "values" (three variables, two     *)
(* integers, destroy), "functors" (two variables, two integers, the terms  *)
(* f(..) of at most one argument, no value_disunify entry) and "terms"     *)
(* (the same over one variable, with value_disunify entries).              *)
(***************************************************************************)
StoreVars == {"X", "Y"}
StoreInts == {0, 1}
StoreStrs == {"f"}

InitStore == \E k \in {"backtrack", "values", "functors", "terms"} : Start(k, StoreLen)

BacktrackBound == Explored(env', StoreStack, StoreChoice, 0, StoreValueDisunify, 0)

NextBacktrack ==
    \/ \E name \in StoreVars : kind = "backtrack" /\ InstrVar(name) /\ BacktrackBound
    \/ kind = "backtrack" /\ InstrInt(0) /\ BacktrackBound
    \/ kind = "backtrack" /\ InstrFail /\ BacktrackBound
    \/ kind = "backtrack" /\ InstrUnify /\ BacktrackBound
    \/ kind = "backtrack" /\ InstrDisunify /\ BacktrackBound
    \/ kind = "backtrack" /\ InstrDestroy /\ BacktrackBound
    \/ kind = "backtrack" /\ InstrGoto /\ BacktrackBound
    \/ kind = "backtrack" /\ InstrGotoChoice /\ BacktrackBound

ValuesBound == Explored(env', StoreStack, 0, 0, StoreValueDisunify, 0)

NextValues ==
    \/ \E name \in StoreVars \cup {"Z"} : kind = "values" /\ InstrVar(name) /\ ValuesBound
    \/ \E n \in StoreInts : kind = "values" /\ InstrInt(n) /\ ValuesBound
    \/ kind = "values" /\ InstrUnify /\ ValuesBound
    \/ kind = "values" /\ InstrDisunify /\ ValuesBound
    \/ kind = "values" /\ InstrDestroy /\ ValuesBound
    \/ kind = "values" /\ InstrGoto /\ ValuesBound

FunctorsBound == Explored(env', StoreStack + 1, 0, 0, 0, StoreTermDepth)

NextFunctors ==
    \/ \E name \in StoreVars : kind = "functors" /\ InstrVar(name) /\ FunctorsBound
    \/ \E n \in StoreInts : kind = "functors" /\ InstrInt(n) /\ FunctorsBound
    \/ \E s \in StoreStrs : kind = "functors" /\ InstrStr(s) /\ FunctorsBound
    \/ kind = "functors" /\ InstrFunctor /\ FunctorsBound
    \/ kind = "functors" /\ InstrUnify /\ FunctorsBound
    \/ kind = "functors" /\ InstrDisunify /\ FunctorsBound
    \/ kind = "functors" /\ InstrGoto /\ FunctorsBound

TermsBound == Explored(env', StoreStack + 1, 0, 0, StoreValueDisunify, StoreTermDepth)

NextTerms ==
    \/ kind = "terms" /\ InstrVar("X") /\ TermsBound
    \/ \E n \in StoreInts : kind = "terms" /\ InstrInt(n) /\ TermsBound
    \/ \E s \in StoreStrs : kind = "terms" /\ InstrStr(s) /\ TermsBound
    \/ kind = "terms" /\ InstrFunctor /\ TermsBound
    \/ kind = "terms" /\ InstrUnify /\ TermsBound
    \/ kind = "terms" /\ InstrDisunify /\ TermsBound
    \/ kind = "terms" /\ InstrGoto /\ TermsBound

NextStore == NextBacktrack \/ NextValues \/ NextFunctors \/ NextTerms

SpecStore == InitStore /\ [][NextStore]_vars

(***************************************************************************)
(* SpecLine: straight-line programs of LineLen instructions over four      *)
(* variables and two integers.                                             *)
(***************************************************************************)
LineVars == {"A", "B", "C", "D"}
LineInts == {3, 4}

InitLine == Start("line", LineLen)

LineBound == Explored(env', LineStack, 0, 0, 0, 0)

NextLine ==
    \/ \E name \in LineVars : InstrVar(name) /\ LineBound
    \/ \E n \in LineInts : InstrInt(n) /\ LineBound
    \/ InstrUnify /\ LineBound
    \/ InstrDisunify /\ LineBound

SpecLine == InitLine /\ [][NextLine]_vars

(***************************************************************************)
(* SpecTerm: straight-line programs of three families: "pairs" (two        *)
(* variables, the integers 2 and 3, the terms f(..) of two or three        *)
(* arguments, unify), "consts" (programs of three instructions over two    *)
(* integers and two strings) and "chain" (three variables, the integer 42, *)
(* unify and print).                                                       *)
(***************************************************************************)
PairsInts == {2, 3}
ConstsInts == {3, 4}
ConstsStrs == {"f", "g"}
ChainVars == {"X", "Y", "Z"}

InitTerm ==
    \/ Start("pairs", PairsLen)
    \/ Start("consts", ConstsLen)
    \/ Start("chain", ChainLen3)

PairsBound ==
    /\ Explored(env', PairsStack, 0, 0, 0, 1)
    /\ Weight(env'.data) <= PairsWeight

NextPairs ==
    \/ \E name \in StoreVars : kind = "pairs" /\ InstrVar(name) /\ PairsBound
    \/ \E n \in PairsInts : kind = "pairs" /\ InstrInt(n) /\ PairsBound
    \/ \E s \in StoreStrs : kind = "pairs" /\ InstrStr(s) /\ PairsBound
    \/ kind = "pairs" /\ InstrFunctor /\ PairsBound
    \/ kind = "pairs" /\ InstrUnify /\ PairsBound

NextConsts ==
    \/ \E n \in ConstsInts : kind = "consts" /\ InstrInt(n)
    \/ \E s \in ConstsStrs : kind = "consts" /\ InstrStr(s)
    \/ kind = "consts" /\ InstrUnify

ChainBound ==
    /\ Explored(env', ChainStack, 0, 0, 0, 0)
    /\ Len(stdout') <= ChainOut

NextChain ==
    \/ \E name \in ChainVars : kind = "chain" /\ InstrVar(name) /\ ChainBound
    \/ kind = "chain" /\ InstrInt(42) /\ ChainBound
    \/ kind = "chain" /\ InstrUnify /\ ChainBound
    \/ kind = "chain" /\ InstrPrint /\ ChainBound

NextTerm == NextPairs \/ NextConsts \/ NextChain

SpecTerm == InitTerm /\ [][NextTerm]_vars

(***************************************************************************)
(* SpecArith: integers.  Two families of straight-line programs: "arith"   *)
(* (four integers, the arithmetic and comparison instructions, rot and     *)
(* gotochoice, every integer on the stack within -ArithMax..ArithMax and   *)
(* the operands of pow within -ArithPow..ArithPow) and                     *)
(* "index" (a variable, small integers, 2^64 - 1 and 2^64, a string,       *)
(* functor, project and unify).                                            *)
(***************************************************************************)
ArithInts == {-2, 0, 2, 3}
IndexInts == {-1, 0, 1, 2}
\* 2^64 - 1 and 2^64
Max64 == WideInt("Plus", <<255, 255, 255, 255, 255, 255, 255, 255>>)
Two64 == WideInt("Plus", <<0, 0, 0, 0, 0, 0, 0, 0, 1>>)

InitArith ==
    \/ Start("arith", ArithLen)
    \/ Start("index", IndexLen)

ArithBound ==
    /\ Explored(env', ArithStack, ArithChoice, 0, 0, 0)
    /\ \A k \in 1..Len(env'.data) :
           env'.data[k][2] \in -ArithMax..ArithMax

\* pow is explored for operands within -ArithPow..ArithPow
PowBound ==
    \A k \in 1..Len(env.data) : k <= 2 => env.data[k][2] \in -ArithPow..ArithPow

NextArithOps ==
    \/ \E n \in ArithInts : kind = "arith" /\ InstrInt(n) /\ ArithBound
    \/ kind = "arith" /\ InstrAdd /\ ArithBound
    \/ kind = "arith" /\ InstrSub /\ ArithBound
    \/ kind = "arith" /\ InstrMul /\ ArithBound
    \/ kind = "arith" /\ InstrDiv /\ ArithBound
    \/ kind = "arith" /\ PowBound /\ InstrPow /\ ArithBound
    \/ kind = "arith" /\ InstrLt /\ ArithBound
    \/ kind = "arith" /\ InstrGt /\ ArithBound
    \/ kind = "arith" /\ InstrLte /\ ArithBound
    \/ kind = "arith" /\ InstrGte /\ ArithBound
    \/ kind = "arith" /\ InstrRot /\ ArithBound
    \/ kind = "arith" /\ InstrGotoChoice /\ ArithBound

IndexBound ==
    /\ Explored(env', IndexStack, 0, 0, 0, 1)
    /\ Weight(env'.data) <= IndexWeight

NextIndex ==
    \/ kind = "index" /\ InstrVar("X") /\ IndexBound
    \/ \E n \in IndexInts : kind = "index" /\ InstrInt(n) /\ IndexBound
    \/ \E w \in {Max64, Two64} : kind = "index" /\ InstrWide(w[2], w[3]) /\ IndexBound
    \/ kind = "index" /\ InstrStr("f") /\ IndexBound
    \/ kind = "index" /\ InstrFunctor /\ IndexBound
    \/ kind = "index" /\ InstrProject /\ IndexBound
    \/ kind = "index" /\ InstrUnify /\ IndexBound

NextArith == NextArithOps \/ NextIndex

SpecArith == InitArith /\ [][NextArith]_vars

(***************************************************************************)
(* MacroProgram::execute, one statement of a pass at a time, and           *)
(* load_instrs, one line and one recorded position at a time.              *)
(***************************************************************************)
ExpandCall(label_name, body) ==
    LET fl == fresh_label(asm.fresh_counter)
    IN  [asm EXCEPT !.result = Tail(@),
                    !.fresh_counter = fl[1],
                    !.new_result = @ \o <<Simple(Position(fl[2]))>>
                                     \o [k \in 1..Len(body) |-> Simple(body[k])]
                                     \o <<Simple(Position(label_name)), Simple(Lit(GotoInstr)),
                                          Simple(Label(fl[2]))>>]

ExpandStmt ==
    /\ asm.phase = "expand"
    /\ asm.result # <<>>
    /\ LET stmt == Head(asm.result)
       IN  asm' =
               IF stmt[1] = "Simple"
               THEN [asm EXCEPT !.result = Tail(@), !.new_result = Append(@, stmt)]
               ELSE IF stmt[1] = "Macro"
               THEN [asm EXCEPT !.result = Tail(@),
                                !.macros = Insert(@, stmt[2], <<stmt[3], stmt[4]>>)]
               ELSE IF stmt[1] = "Call"
               THEN ExpandCall(stmt[2], stmt[3])
               ELSE IF stmt[2] \in DOMAIN asm.macros
               THEN LET macro_body == asm.macros[stmt[2]][2]
                        subs_map == make_subs_map(asm.macros[stmt[2]][1], stmt[3])
                    IN  [asm EXCEPT !.result = Tail(@),
                                    !.new_result = @ \o
                                        [k \in 1..Len(macro_body) |->
                                            substitute(macro_body[k], subs_map)]]
               ELSE [asm EXCEPT !.phase = "failed"]
    /\ UNCHANGED <<kind, len, env, i, result, new_env, status, stdout>>

\* the end of a pass that starts the next pass with the label counter at 0
EndPass_reset ==
    /\ asm.phase = "expand"
    /\ asm.result = <<>>
    /\ LET all_simple == from_simple(asm.new_result)
       IN  asm' =
               IF all_simple # None
               THEN [asm EXCEPT !.phase = "expanded", !.lines = all_simple[1]]
               ELSE [asm EXCEPT !.result = asm.new_result, !.new_result = <<>>,
                                !.fresh_counter = 0]
    /\ UNCHANGED <<kind, len, env, i, result, new_env, status, stdout>>

\* the end of a pass: return the instructions or start the next pass
EndPass ==
    /\ asm.phase = "expand"
    /\ asm.result = <<>>
    /\ LET all_simple == from_simple(asm.new_result)
       IN  asm' =
               IF all_simple # None
               THEN [asm EXCEPT !.phase = "expanded", !.lines = all_simple[1]]
               ELSE [asm EXCEPT !.result = asm.new_result, !.new_result = <<>>]
    /\ UNCHANGED <<kind, len, env, i, result, new_env, status, stdout>>

\* the expanded program, as run_macro_envm_file prints it, is loaded
Assemble ==
    /\ asm.phase = "expanded"
    /\ asm' = [asm EXCEPT !.phase = "load"]
    /\ UNCHANGED <<kind, len, env, i, result, new_env, status, stdout>>

\* the first loop of load_instrs with a label at the instruction count alone
FirstPass_no_pending(a, line) ==
    IF line = None
    THEN [a EXCEPT !.error = TRUE]
    ELSE IF line[1][1] = "Lit"
    THEN [a EXCEPT !.instrs = Append(@, line[1][2])]
    ELSE IF line[1][1] = "Quote"
    THEN [a EXCEPT !.error = TRUE]
    ELSE IF line[1][1] = "Label"
    THEN [a EXCEPT !.locations = Insert(@, line[1][2], Len(a.instrs))]
    ELSE IF line[1][1] = "Position"
    THEN [a EXCEPT !.positions =
                       Append(@, <<Len(a.instrs) + Len(a.positions), line[1][2]>>)]
    ELSE a

\* the body of the first loop of load_instrs; line is what parse_macro_instr
\* returned
FirstPass(a, line) ==
    IF line = None
    THEN [a EXCEPT !.error = TRUE]
    ELSE IF line[1][1] = "Lit"
    THEN [a EXCEPT !.instrs = Append(@, line[1][2])]
    ELSE IF line[1][1] = "Quote"
    THEN [a EXCEPT !.error = TRUE]
    ELSE IF line[1][1] = "Label"
    THEN [a EXCEPT !.locations =
                       Insert(@, line[1][2], Len(a.instrs) + Len(a.positions))]
    ELSE IF line[1][1] = "Position"
    THEN [a EXCEPT !.positions =
                       Append(@, <<Len(a.instrs) + Len(a.positions), line[1][2]>>)]
    ELSE a

LoadLine ==
    /\ asm.phase = "load"
    /\ asm.read < Len(asm.lines)
    /\ asm' = [FirstPass(asm, parse_macro_instr(asm.lines[asm.read + 1]))
                  EXCEPT !.read = @ + 1]
    /\ UNCHANGED <<kind, len, env, i, result, new_env, status, stdout>>

\* the body of the second loop; Vec::insert panics beyond the end
InsertPosition ==
    /\ asm.phase = "load"
    /\ asm.read = Len(asm.lines)
    /\ asm.inserted < Len(asm.positions)
    /\ LET insert_pos == asm.positions[asm.inserted + 1][1]
           label_name == asm.positions[asm.inserted + 1][2]
       IN  asm' =
               IF label_name \in DOMAIN asm.locations
               THEN IF insert_pos <= Len(asm.instrs)
                    THEN [asm EXCEPT !.inserted = @ + 1,
                                     !.instrs = InsertAt(@, insert_pos,
                                                    IntInstr(asm.locations[label_name]))]
                    ELSE [asm EXCEPT !.phase = "panic"]
               ELSE [asm EXCEPT !.inserted = @ + 1, !.error = TRUE]
    /\ UNCHANGED <<kind, len, env, i, result, new_env, status, stdout>>

\* return None or Some(instrs)
LoadReturn ==
    /\ asm.phase = "load"
    /\ asm.read = Len(asm.lines)
    /\ asm.inserted = Len(asm.positions)
    /\ asm' = [asm EXCEPT !.phase = "done"]
    /\ UNCHANGED <<kind, len, env, i, result, new_env, status, stdout>>

(***************************************************************************)
(* SpecAsm: the assembler and the macro expander.  Family "envm": every    *)
(* source of at most AsmLen lines over two instructions, two labels and    *)
(* their positions, an empty line, a quote and a line that does not parse. *)
(* Family "menvm": every macro program of at most MacroLen statements over *)
(* an instruction, three label declarations, two call blocks, a macro with *)
(* a call block as its body and an invocation of it, a macro that invokes  *)
(* itself and an invocation of it; its expansion is loaded.                *)
(***************************************************************************)
AsmLines ==
    {Lit(PopInstr), Lit(GotoInstr), Label("L"), Label("M"),
     Position("L"), Position("M"), Noop, Quote(<<"pop">>), Garbage}

MacroStmts ==
    {Simple(Lit(PopInstr)), Simple(Label("L")), Simple(Label("label_0")),
     Call("L", <<>>), Call("L", <<Lit(PopInstr)>>),
     Macro("m", <<"a">>, <<Call("a", <<>>)>>), CallMacro("m", <<"L">>),
     Macro("r", <<>>, <<CallMacro("r", <<>>)>>), CallMacro("r", <<>>)}

\* the sequences of at most n elements of S
RECURSIVE UpTo(_, _)
UpTo(S, n) ==
    IF n = 0 THEN {<<>>}
    ELSE LET shorter == UpTo(S, n - 1)
         IN  shorter \cup {Append(q, x) : q \in {t \in shorter : Len(t) = n - 1}, x \in S}

InitAsm ==
    /\ kind \in {"envm", "menvm"}
    /\ len = 0
    /\ env = NewEnvironment
    /\ i = 0
    /\ result = [ok |-> TRUE, msg |-> ""]
    /\ new_env = None
    /\ status = "running"
    /\ stdout = <<>>
    /\ \/ /\ kind = "envm"
          /\ \E source \in UpTo(AsmLines, AsmLen) :
                 asm = [NoAsm EXCEPT !.phase = "load", !.lines = source]
       \/ /\ kind = "menvm"
          /\ \E stmts \in UpTo(MacroStmts, MacroLen) :
                 asm = [NoAsm EXCEPT !.phase = "expand", !.statements = stmts,
                                     !.result = stmts]

NextAsm ==
    \/ ExpandStmt
    \/ EndPass
    \/ Assemble
    \/ LoadLine
    \/ InsertPosition
    \/ LoadReturn

SpecAsm == InitAsm /\ [][NextAsm]_vars

(***************************************************************************)
(* SpecExpand: MacroProgram::execute alone, on every macro program of at   *)
(* most ExpandLen statements of MacroStmts.  The two loops of execute are  *)
(* sequential code: a step that can be taken is taken.                     *)
(***************************************************************************)
ExpandLen == 3

InitExpand ==
    /\ kind = "expand"
    /\ len = 0
    /\ env = NewEnvironment
    /\ i = 0
    /\ result = [ok |-> TRUE, msg |-> ""]
    /\ new_env = None
    /\ status = "running"
    /\ stdout = <<>>
    /\ \E stmts \in UpTo(MacroStmts, ExpandLen) :
           asm = [NoAsm EXCEPT !.phase = "expand", !.statements = stmts,
                               !.result = stmts]

NextExpand ==
    \/ ExpandStmt
    \/ EndPass

SpecExpand == InitExpand /\ [][NextExpand]_vars /\ WF_vars(NextExpand)

(***************************************************************************)
(* Properties.                                                             *)
(***************************************************************************)
\* a state between two instructions of a run, or after its normal end
Between == status \in {"running", "ok"}

\* the names reachable from A through var_unify edges, A included
Class(u, A) ==
    LET ls == Layers(u, {A}, {})
    IN  UNION {ls[k] : k \in 1..Len(ls)}

\* the step is an instruction that failed (its result is an Err)
Failed == ~result'.ok /\ status' # "abort"

\* the step is a gotochoice that installed a choicepoint
Installed == ChainLen(env'.choicepoint) = ChainLen(env.choicepoint) + 1

\* C1: an instruction that fails while the slot holds (r, S) leaves the
\* stack, the store and the slot equal to those of S and i = r; S is the
\* environment as it stood right after the installing gotochoice popped its
\* index.
C1_RollbackRestoresSnapshot ==
    [][/\ (Failed /\ env.choicepoint # None) =>
              /\ env'.data = env.choicepoint[2].data
              /\ env'.unified = env.choicepoint[2].unified
              /\ env'.choicepoint = env.choicepoint[2].choicepoint
              /\ i' = env.choicepoint[1]
       /\ Installed =>
              /\ env'.choicepoint[2].data = Tail(env.data)
              /\ env'.choicepoint[2].unified = env.unified
              /\ env'.choicepoint[2].choicepoint = env.choicepoint
              /\ env'.data = Tail(env.data)
              /\ env'.unified = env.unified]_vars

\* a rollback has just restored a non-empty stack and store, after a fresh
\* instruction ran since the snapshot was taken
C1_Witness ==
    /\ status = "running"
    /\ new_env # None
    /\ env.data # <<>>
    /\ env.unified # <<>>
    /\ env.fresh_counter > new_env[1].fresh_counter

C3_ErrorIffFailureWithoutChoicepoint ==
    [][/\ status = "running"
       /\ (status' = "err") = (Failed /\ env.choicepoint = None)
       /\ (Failed /\ env.choicepoint # None) => status' \in {"running", "ok"}
       /\ result'.ok => status' \in {"running", "ok"}]_vars

\* a run that has ended with the error of a failed unify
C3_Witness ==
    /\ status = "err"
    /\ ~result.ok
    /\ result.msg = "Cannot unify values"

\* C4: choicepoints chain last-in-first-out: a gotochoice puts the old slot
\* inside its snapshot, a failure resumes at the index of the newest
\* choicepoint and makes the slot the one inside its snapshot, so that the
\* chain loses exactly its newest choicepoint; no other step changes the
\* slot.
C4_ChoicepointChainLifo ==
    [][/\ Installed =>
              /\ env'.choicepoint[2].choicepoint = env.choicepoint
              /\ IsIntValue(Head(env.data)) => env'.choicepoint[1] = Head(env.data)[2]
       /\ (Failed /\ env.choicepoint # None) =>
              /\ i' = env.choicepoint[1]
              /\ env'.choicepoint = env.choicepoint[2].choicepoint
              /\ ChainLen(env'.choicepoint) = ChainLen(env.choicepoint) - 1
       /\ (~Installed /\ ~(Failed /\ env.choicepoint # None)) =>
              env'.choicepoint = env.choicepoint]_vars

\* a failure has just consumed the newer of two choicepoints with different
\* indices: the run resumes at the newer index and the slot holds the older
C4_Witness ==
    /\ status = "running"
    /\ new_env # None
    /\ env.choicepoint # None
    /\ env.choicepoint = new_env[1].choicepoint
    /\ i # env.choicepoint[1]

\* the two operands of the next unify or disunify are variables
TwoVariables ==
    /\ Len(env.data) >= 2
    /\ IsVariable(env.data[1])
    /\ IsVariable(env.data[2])

\* C11: a successful unify of two distinct variables x and y leaves a store
\* in which is_unified(x, y) and is_unified(y, x) both return true.
C11_UnifiedAfterUnify ==
    [][(TwoVariables /\ env.data[1] # env.data[2] /\ InstrUnify /\ result'.ok) =>
           /\ is_unified(env'.unified, env.data[1][2], env.data[2][2]) = {QOk(TRUE)}
           /\ is_unified(env'.unified, env.data[2][2], env.data[1][2]) = {QOk(TRUE)}]_vars

\* the next unify or disunify has a variable and a value as operands;
\* VarOperand is the variable's name, ValueOperand the value
VarAndValue ==
    /\ Len(env.data) >= 2
    /\ IsVariable(env.data[1]) # IsVariable(env.data[2])

VarOperand == IF IsVariable(env.data[1]) THEN env.data[1][2] ELSE env.data[2][2]

ValueOperand == IF IsVariable(env.data[1]) THEN env.data[2] ELSE env.data[1]

\* C12: after a successful disunify of a variable x with a value c, a
\* unify of x with c on the store it left fails.
C12_UnifyFailsAfterDisunify ==
    [][(VarAndValue /\ InstrDisunify /\ result'.ok) =>
           \A o \in unify_items(env', Variable(VarOperand), ValueOperand, MaxRecursion) :
               ~o.ok]_vars

\* the two names denote the same variable under the store u
SameVariable(u, x, y) == x = y \/ y \in Class(u, x) \/ x \in Class(u, y)

\* C13: disunify of two variables that denote the same variable fails and
\* adds no var_disunify edge.
C13_DisunifySameVariableFails ==
    [][(/\ TwoVariables
        /\ SameVariable(env.unified, env.data[1][2], env.data[2][2])
        /\ InstrDisunify) =>
           /\ ~result'.ok
           /\ \A v \in DOMAIN env'.unified :
                  env'.unified[v].var_disunify =
                      IF v \in DOMAIN env.unified THEN env.unified[v].var_disunify ELSE {}]_vars

\* the two operands of the next unify or disunify are values
TwoValues ==
    /\ Len(env.data) >= 2
    /\ ~IsVariable(env.data[1])
    /\ ~IsVariable(env.data[2])

\* C14: disunify of two values succeeds exactly when the two values are not
\* structurally equal.
C14_DisunifyValuesIffDifferent ==
    [][(TwoValues /\ InstrDisunify) =>
           (result'.ok = (env.data[1] # env.data[2]))]_vars

\* the values an operand can denote: itself, or what its variable resolves to
Denotes(u, item) ==
    IF IsVariable(item)
    THEN {q.val[1][1] : q \in {r \in var_value_opt(u, item[2]) : r.ok /\ r.val[1] # None}}
    ELSE {item}

\* the operand denotes a functor term, and nothing else
DenotesFunctor(u, item) ==
    /\ Denotes(u, item) # {}
    /\ \A t \in Denotes(u, item) : IsFunctor(t)
    /\ IsVariable(item) =>
           \A r \in var_value_opt(u, item[2]) : r.ok /\ r.val[1] # None

\* C15: unify of two functor terms with equal names and different numbers
\* of arguments fails, for operands given as values or as bound variables.
C15_UnifyArityMismatchFails ==
    [][(/\ Len(env.data) >= 2
        /\ DenotesFunctor(env.unified, env.data[1])
        /\ DenotesFunctor(env.unified, env.data[2])
        /\ \A t1 \in Denotes(env.unified, env.data[1]),
              t2 \in Denotes(env.unified, env.data[2]) :
               t1[2] = t2[2] /\ Len(t1[3]) # Len(t2[3])
        /\ InstrUnify) =>
           ~result'.ok]_vars

\* the two items agree under the store u: equal values, a variable that
\* resolves to the value, or two variables that are unified
Agree(u, a, b) ==
    IF IsVariable(a) /\ IsVariable(b)
    THEN a = b \/ is_unified(u, a[2], b[2]) = {QOk(TRUE)}
    ELSE IF IsVariable(a) THEN var_value_opt(u, a[2]) = {QOk(Some(b))}
    ELSE IF IsVariable(b) THEN var_value_opt(u, b[2]) = {QOk(Some(a))}
    ELSE a = b

\* the two operands of the next unify are functors of the same name and
\* the same number of arguments
TwoAlikeFunctors ==
    /\ TwoValues
    /\ IsFunctor(env.data[1])
    /\ IsFunctor(env.data[2])
    /\ env.data[1][2] = env.data[2][2]
    /\ Len(env.data[1][3]) = Len(env.data[2][3])

\* C16: unify of two functor values of equal name and arity unifies the
\* arguments pairwise by position: after a success every pair agrees under
\* the store, and a pair of two different values makes the unify fail.
C16_UnifyFunctorsPairwise ==
    [][(TwoAlikeFunctors /\ InstrUnify) =>
           LET args1 == env.data[1][3]
               args2 == env.data[2][3]
           IN  /\ result'.ok =>
                      /\ \A k \in 1..Len(args1) : Agree(env'.unified, args1[k], args2[k])
                      /\ env'.data = SubSeq(env.data, 3, Len(env.data))
               /\ (\E k \in 1..Len(args1) :
                       /\ ~IsVariable(args1[k])
                       /\ ~IsVariable(args2[k])
                       /\ args1[k] # args2[k]) => ~result'.ok]_vars

\* the normal end of a program of eleven instructions that builds two terms
\* of two arguments and unifies them, such as `int 3 / var X / int 2 /
\* str f / functor / var Y / int 2 / int 2 / str f / functor / unify`:
\* X resolves to 2 and Y to 3
C16_Witness ==
    /\ kind = "pairs"
    /\ status = "ok"
    /\ result.ok
    /\ i = PairsLen
    /\ env.data = <<>>
    /\ DOMAIN env.unified = {"X", "Y"}
    /\ var_value_opt(env.unified, "X") = {QOk(Some(IntValue(2)))}
    /\ var_value_opt(env.unified, "Y") = {QOk(Some(IntValue(3)))}

\* C17: unify of two values that are not functors succeeds exactly when
\* they are equal; a success pops both operands and leaves the store as it
\* was; a failure without choicepoint ends the run with an error.
C17_UnifyValuesIffEqual ==
    [][(TwoValues /\ ~IsFunctor(env.data[1]) /\ ~IsFunctor(env.data[2]) /\ InstrUnify) =>
           /\ result'.ok = (env.data[1] = env.data[2])
           /\ result'.ok =>
                  /\ env'.data = SubSeq(env.data, 3, Len(env.data))
                  /\ env'.unified = env.unified
                  /\ status' = Halt(i + 1)
           /\ (~result'.ok /\ env.choicepoint = None) => status' = "err"]_vars

\* the normal end of a program of three instructions that unifies two equal
\* values: empty stack, empty store
C17_Witness ==
    /\ kind = "consts"
    /\ status = "ok"
    /\ result.ok
    /\ i = ConstsLen
    /\ env.data = <<>>
    /\ env.unified = <<>>

\* the values bound to the variables of the class of z under the store u
ClassValues(u, z) ==
    {u[x].value_unify[1] : x \in {y \in Class(u, z) \cap DOMAIN u : u[y].value_unify # None}}

\* the next instruction has a variable with a record as its operand
VariableOnTop ==
    /\ env.data # <<>>
    /\ IsVariable(env.data[1])

\* C18: value resolution is transitive: when the class of the variable z
\* (the variables connected to z by unify) holds the integer c and no other
\* value, print of z writes c and pop_int of z yields c.
C18_ResolutionTransitive ==
    [][(/\ VariableOnTop
        /\ Cardinality(ClassValues(env.unified, env.data[1][2])) = 1
        /\ \A c \in ClassValues(env.unified, env.data[1][2]) : IsIntValue(c)
        /\ InstrPrint) =>
           LET c == CHOOSE c \in ClassValues(env.unified, env.data[1][2]) : TRUE
           IN  /\ result'.ok
               /\ stdout' = Append(stdout, ToString(c[2]))
               /\ env'.data = Tail(env.data)
               /\ \A r \in popint(env) : r.ok /\ r.val = c]_vars

\* print has written 42 for Z, whose record holds no value and which is
\* not directly unified with the variable that holds 42
C18_Witness ==
    /\ kind = "chain"
    /\ stdout = <<"42">>
    /\ result.ok
    /\ "Z" \in DOMAIN env.unified
    /\ env.unified["Z"].value_unify = None
    /\ \A v \in env.unified["Z"].var_unify : env.unified[v].value_unify = None
    /\ ClassValues(env.unified, "Z") = {IntValue(42)}

\* C19: print of a variable never fails: it writes the value the variable
\* resolves to, or the variable's name when its class holds no value.
C19_PrintVariableNeverFails ==
    [][(VariableOnTop /\ InstrPrint) =>
           /\ result'.ok
           /\ \/ stdout' = Append(stdout, env.data[1][2])
              \/ \E c \in ClassValues(env.unified, env.data[1][2]) :
                     stdout' = Append(stdout, Display(c))]_vars

\* C20: destroy empties the store and leaves the stack, the fresh counter
\* and the choicepoint slot as they were; the run goes on with the next
\* instruction.
C20_DestroyFrame ==
    [][InstrDestroy =>
           /\ result'.ok
           /\ env'.unified = <<>>
           /\ env'.data = env.data
           /\ env'.fresh_counter = env.fresh_counter
           /\ env'.choicepoint = env.choicepoint
           /\ i' = i + 1
           /\ stdout' = stdout]_vars

\* destroy has emptied a store that held records when the choicepoint was
\* installed; stack, fresh counter and slot are still there
C20_Witness ==
    /\ status = "running"
    /\ new_env = None
    /\ env.unified = <<>>
    /\ env.data # <<>>
    /\ env.fresh_counter > 0
    /\ env.choicepoint # None
    /\ env.choicepoint[2].unified # <<>>

\* the next instruction finds two integer literals on top of the stack
TwoInts ==
    /\ Len(env.data) >= 2
    /\ IsIntValue(env.data[1]) /\ ~IsWide(env.data[1])
    /\ IsIntValue(env.data[2]) /\ ~IsWide(env.data[2])

\* the integer popped first (the top of the stack) and the one popped second
FirstPopped == env.data[1][2]

SecondPopped == env.data[2][2]

\* the stack below the two operands
Rest == Tail(Tail(env.data))

\* C21: div with second-popped 0 is an ordinary failure of the instruction:
\* the run does not end abnormally, and with a choicepoint installed it goes
\* on at the choicepoint's index.
C21_DivByZeroIsOrdinaryFailure ==
    [][(TwoInts /\ SecondPopped = 0 /\ InstrDiv) =>
           /\ Failed
           /\ env.choicepoint # None => i' = env.choicepoint[1]]_vars

\* C22 as stated: pow pops the exponent first and the base second; it fails
\* exactly when the first-popped is negative and otherwise pushes
\* second-popped to the power of first-popped (so int 2 / int 3 / pow
\* leaves 8).
C22_PowExponentPoppedFirst ==
    [][(TwoInts /\ PowBound /\ InstrPow) =>
           /\ result'.ok <=> FirstPopped >= 0
           /\ (result'.ok /\ FirstPopped >= 0) =>
                  env'.data = <<IntValue(Power(SecondPopped, FirstPopped))>> \o Rest]_vars

\* C22, amended: pow pops the base first and the exponent second; it fails
\* exactly when the second-popped is negative and otherwise replaces the two
\* operands by first-popped to the power of second-popped (so int 2 / int 3 /
\* pow leaves 9 and int 3 / int 2 / pow leaves 8).
C22_PowBasePoppedFirst ==
    [][(TwoInts /\ PowBound /\ InstrPow) =>
           /\ result'.ok <=> SecondPopped >= 0
           /\ (result'.ok /\ SecondPopped >= 0) =>
                  env' = [env EXCEPT !.data =
                             <<IntValue(Power(FirstPopped, SecondPopped))>> \o Rest]]_vars

\* the state after int 3 / int 2 / pow: no other program of three
\* instructions over -2, 0, 2, 3 leaves 8
C22_Witness ==
    /\ kind = "arith"
    /\ i = 3
    /\ result.ok
    /\ env.data = <<IntValue(8)>>
    /\ env.choicepoint = None

\* the instruction succeeded and replaced the two operands by n, leaving the
\* rest of the stack, the store, the slot and the fresh counter as they were
Pushed(n) ==
    /\ result'.ok
    /\ env' = [env EXCEPT !.data = <<IntValue(n)>> \o Rest]

\* C23: with a the first-popped and b the second-popped, add pushes a + b,
\* sub a - b, mul a * b and, for b # 0, div the quotient of a by b truncated
\* toward zero; the depth goes down by one and the rest of the stack and the
\* store are unchanged.
C23_ArithmeticPushesAOpB ==
    [][TwoInts =>
           /\ InstrAdd => Pushed(FirstPopped + SecondPopped)
           /\ InstrSub => Pushed(FirstPopped - SecondPopped)
           /\ InstrMul => Pushed(FirstPopped * SecondPopped)
           /\ (InstrDiv /\ SecondPopped # 0) =>
                  /\ result'.ok
                  /\ Len(env'.data) = Len(env.data) - 1
                  /\ Pushed(env'.data[1][2])
                  /\ LET q == env'.data[1][2]
                         r == FirstPopped - q * SecondPopped
                     IN  /\ (IF r < 0 THEN -r ELSE r)
                              < (IF SecondPopped < 0 THEN -SecondPopped ELSE SecondPopped)
                         /\ r # 0 => (r < 0) = (FirstPopped < 0)]_vars

\* the state after int 3 / int -2 / sub: -2 - 3 = -5, and no other program
\* of three instructions over -2, 0, 2, 3 leaves -5
C23_Witness ==
    /\ kind = "arith"
    /\ i = 3
    /\ result.ok
    /\ env.data = <<IntValue(-5)>>
    /\ env.choicepoint = None

\* the comparison succeeded exactly when `holds`; a success only removes the
\* two operands, a failure is rolled back to the choicepoint or ends the run
Compared(holds) ==
    /\ result'.ok <=> holds
    /\ result'.ok => env' = [env EXCEPT !.data = Rest] /\ i' = i + 1
    /\ ~result'.ok =>
           /\ Failed
           /\ env.choicepoint = None => status' = "err"
           /\ env.choicepoint # None =>
                  /\ env'.data = env.choicepoint[2].data
                  /\ i' = env.choicepoint[1]

\* C24: with a the first-popped and b the second-popped, lt succeeds iff
\* a < b, gt iff a > b, lte iff a <= b, gte iff a >= b; a success only
\* removes the two operands, a failure is handled by backtracking.
C24_ComparisonsSucceedIff ==
    [][TwoInts =>
           /\ InstrLt => Compared(FirstPopped < SecondPopped)
           /\ InstrGt => Compared(FirstPopped > SecondPopped)
           /\ InstrLte => Compared(FirstPopped <= SecondPopped)
           /\ InstrGte => Compared(FirstPopped >= SecondPopped)]_vars

\* a comparison of two pushed integers succeeded: of the instructions of the
\* family only a comparison takes two items and pushes none
C24_Witness ==
    /\ kind = "arith"
    /\ i = 3
    /\ result.ok
    /\ env.data = <<>>
    /\ env.choicepoint = None

\* the next instruction finds a string on top of the stack and a nonnegative
\* integer literal below it
FunctorOperands ==
    /\ Len(env.data) >= 2
    /\ IsStringValue(env.data[1])
    /\ IsIntValue(env.data[2]) /\ ~IsWide(env.data[2])
    /\ env.data[2][2] >= 0

\* the next instruction finds a nonnegative integer literal on top of the
\* stack and a functor below it
ProjectOperands ==
    /\ Len(env.data) >= 2
    /\ IsIntValue(env.data[1]) /\ ~IsWide(env.data[1])
    /\ env.data[1][2] >= 0
    /\ IsFunctor(env.data[2])

\* C25: functor pops the name, then the count n, then n items, and pushes
\* the functor whose argument i is the item popped i-th, so that the depth
\* goes down by n + 1; it fails when fewer than n items are there or the
\* name is not a string.  int i / project on the functor pushes argument i
\* for 0 <= i < n and fails for i >= n.
C25_FunctorAndProject ==
    [][/\ (FunctorOperands /\ InstrFunctor) =>
              LET n == env.data[2][2]
              IN  IF n + 2 <= Len(env.data)
                  THEN /\ result'.ok
                       /\ env' = [env EXCEPT !.data =
                                     <<Functor(env.data[1][2], SubSeq(env.data, 3, n + 2))>>
                                     \o SubSeq(env.data, n + 3, Len(env.data))]
                       /\ Len(env'.data) = Len(env.data) - (n + 1)
                  ELSE ~result'.ok
       /\ (env.data # <<>> /\ ~IsStringValue(env.data[1]) /\ InstrFunctor) => ~result'.ok
       /\ (ProjectOperands /\ InstrProject) =>
              LET idx == env.data[1][2]
                  args == env.data[2][3]
              IN  IF idx < Len(args)
                  THEN /\ result'.ok
                       /\ env' = [env EXCEPT !.data = <<args[idx + 1]>> \o Rest]
                  ELSE ~result'.ok]_vars

\* the end of a program such as var X / int 1 / int 2 / str f / functor /
\* int 1 / project: the functor is f(1, X) and its argument 1 is X
C25_Witness ==
    /\ kind = "index"
    /\ i = IndexLen
    /\ status = "ok"
    /\ result.ok
    /\ env.data = <<Variable("X")>>
    /\ env.unified = <<>>

\* C26: rot on c (top), b, a leaves b on top, then a, then c, and the rest
\* of the stack as it was; with fewer than three items it fails.
C26_RotOrder ==
    [][InstrRot =>
           IF Len(env.data) >= 3
           THEN /\ result'.ok
                /\ env' = [env EXCEPT !.data =
                              <<env.data[2], env.data[3], env.data[1]>>
                              \o Tail(Tail(Tail(env.data)))]
           ELSE ~result'.ok]_vars

\* the state after int 0 / int 2 / int 3 / rot
C26_Witness ==
    /\ kind = "arith"
    /\ i = 4
    /\ result.ok
    /\ env.data = <<IntValue(2), IntValue(0), IntValue(3)>>
    /\ env.choicepoint = None

\* x < y for the little-endian bytes of two magnitudes
MagLess(x, y) ==
    \/ Len(x) < Len(y)
    \/ /\ Len(x) = Len(y)
       /\ \E k \in 1..Len(x) :
              /\ x[k] < y[k]
              /\ \A j \in (k + 1)..Len(x) : x[j] = y[j]

\* 0 <= int < 2^64
InUsizeRange(int) ==
    /\ sign(int) # "Minus"
    /\ MagLess(to_bytes_le(int), Two64[3])

\* the usize idx is the integer int
SameInteger(idx, int) ==
    IF IsWide(int)
    THEN /\ Len(int[3]) <= 8
         /\ \A k \in 1..8 : idx[k] = (IF k <= Len(int[3]) THEN int[3][k] ELSE 0)
    ELSE UsizeFits(idx) /\ UsizeNat(idx) = int[2]

\* the integers the top of the stack denotes: itself, or the integers bound
\* in its class when it is a variable
TopIntegers ==
    LET top == Head(env.data)
    IN  IF IsIntValue(top) THEN {top}
        ELSE IF IsVariable(top)
        THEN {c \in ClassValues(env.unified, top[2]) : IsIntValue(c)}
        ELSE {}

\* C27: pop_index removes the top of the stack; it returns the integer the
\* top denotes, unchanged, when that lies in 0..2^64 - 1 and fails when it is
\* negative or 2^64 or more; a variable is resolved through the store, and
\* pop_index fails when no integer is bound.
C27_PopIndexRange ==
    (Between /\ env.data # <<>>) =>
        \A r \in popidx(env) :
            /\ r.env = [env EXCEPT !.data = Tail(env.data)]
            /\ TopIntegers = {} => ~r.ok
            /\ \A c \in TopIntegers :
                   TopIntegers = {c} =>
                       /\ r.ok <=> InUsizeRange(c)
                       /\ r.ok => SameInteger(r.val, c)

\* X, bound to 2^64 - 1, is on top of a functor: pop_index returns eight
\* bytes of 255
C27_Witness ==
    /\ kind = "index"
    /\ Between
    /\ Len(env.data) = 2
    /\ env.data[1] = Variable("X")
    /\ IsFunctor(env.data[2])
    /\ ClassValues(env.unified, "X") = {Max64}
    /\ \A r \in popidx(env) : r.ok /\ r.val = <<255, 255, 255, 255, 255, 255, 255, 255>>

\* C28: the names fresh issues within a run are pairwise distinct, rollbacks
\* included: fresh pushes the name of the current counter value and
\* increments the counter, different counter values have different names,
\* and no step, a rollback included, decreases the counter.
C28_FreshNamesDistinct ==
    [][/\ env'.fresh_counter >= env.fresh_counter
       /\ InstrFresh =>
              /\ env'.data = <<Variable(FreshName(env.fresh_counter))>> \o env.data
              /\ env'.fresh_counter = env.fresh_counter + 1
       /\ \A j, k \in 0..env'.fresh_counter :
              j # k => FreshName(j) # FreshName(k)]_vars

\* fresh has issued T_1 onto a stack that does not hold T_0, as after
\* int 1 / gotochoice / fresh / fail and, from index 1 again, fresh
C28_Witness ==
    /\ kind = "control"
    /\ status = "running"
    /\ i = 2
    /\ result.ok
    /\ env.fresh_counter = 2
    /\ env.data = <<Variable("T_1")>>
    /\ env.choicepoint = None

\* the line emits an entry of the instruction array
Emits(line) == line[1] \in {"Lit", "Position"}

\* the number of entries emitted by the lines before line k: the index of
\* the entry of line k, and for a declaration the index of the first
\* instruction emitted after it (the array length when none follows)
EmitIndex(lines, k) == Cardinality({j \in 1..(k - 1) : Emits(lines[j])})

\* the line of the last declaration of the label
LastDeclaration(lines, name) ==
    CHOOSE k \in 1..Len(lines) :
        /\ lines[k] = Label(name)
        /\ \A j \in (k + 1)..Len(lines) : lines[j] # Label(name)

\* every line is an instruction, a declaration, a position or empty, and
\* every label a position refers to is declared
Resolvable(lines) ==
    \A k \in 1..Len(lines) :
        /\ lines[k][1] \in {"Lit", "Label", "Position", "Noop"}
        /\ lines[k][1] = "Position" => \E j \in 1..Len(lines) : lines[j] = Label(lines[k][2])

\* C29: for a source in which each referenced label is declared, load_instrs
\* returns an array with one entry per instruction line and per position
\* line, in source order; the entry of a position L line is the Int of the
\* index of the first instruction emitted after the declaration of L (the
\* last one, should L be declared more than once), or of the array length
\* when none follows, wherever the declaration and other positions stand.
C29_LabelResolution ==
    (asm.phase = "done" /\ Resolvable(asm.lines)) =>
        /\ ~asm.error
        /\ Len(asm.instrs) = Len(SelectSeq(asm.lines, Emits))
        /\ \A k \in 1..Len(asm.lines) :
               Emits(asm.lines[k]) =>
                   asm.instrs[EmitIndex(asm.lines, k) + 1] =
                       IF asm.lines[k][1] = "Lit" THEN asm.lines[k][2]
                       ELSE IntInstr(EmitIndex(asm.lines,
                                LastDeclaration(asm.lines, asm.lines[k][2])))

\* position M / :L / pop / position L / :M has been loaded: M, declared
\* after its use and at the end, is the array length 3; L, declared before
\* its use and after a position, is 1
C29_Witness ==
    /\ kind = "envm"
    /\ asm.phase = "done"
    /\ ~asm.error
    /\ asm.lines = <<Position("M"), Label("L"), Lit(PopInstr), Position("L"), Label("M")>>
    /\ asm.instrs = <<IntInstr(3), PopInstr, IntInstr(1)>>

\* the return labels the expansion has issued
IssuedLabels == {fresh_label(k)[2] : k \in 0..(asm.fresh_counter - 1)}

\* in the loaded program R is declared exactly once, right after a goto, and
\* every position R holds the index of the instruction following that goto
ReturnsAfterGoto(a, R) ==
    /\ Cardinality({k \in 1..Len(a.lines) : a.lines[k] = Label(R)}) = 1
    /\ \A k \in 1..Len(a.lines) :
           a.lines[k] = Label(R) =>
               /\ k > 1
               /\ a.lines[k - 1] = Lit(GotoInstr)
               /\ \A p \in 1..Len(a.lines) :
                      a.lines[p] = Position(R) =>
                          a.instrs[EmitIndex(a.lines, p) + 1] =
                              IntInstr(EmitIndex(a.lines, k - 1) + 1)

\* C30: the expansion of call LABEL ... endcall appends position R for a
\* fresh label R, the body unchanged, position LABEL, goto and :R, in this
\* order; in the program that is loaded R is declared exactly once, right
\* after the goto, and the Int of position R is the index of the
\* instruction following the goto.
C30_CallExpansionReturns ==
    [][/\ (ExpandStmt /\ Head(asm.result)[1] = "Call") =>
              LET R == fresh_label(asm.fresh_counter)[2]
                  body == Head(asm.result)[3]
              IN  asm'.new_result =
                      asm.new_result \o <<Simple(Position(R))>>
                      \o [k \in 1..Len(body) |-> Simple(body[k])]
                      \o <<Simple(Position(Head(asm.result)[2])),
                           Simple(Lit(GotoInstr)), Simple(Label(R))>>
       /\ (LoadReturn /\ kind = "menvm" /\ ~asm.error) =>
              \A R \in IssuedLabels : ReturnsAfterGoto(asm', R)]_vars

\* the return labels of the first n call blocks expanded
LabelsUpTo(n) == {fresh_label(k)[2] : k \in 0..(n - 1)}

\* C31: across all passes of one expansion every call block gets a return
\* label no earlier call block got: the label of a call block is that of
\* the current counter value, none of the labels issued before; the counter
\* then goes up by one, it never goes down, between passes included, and
\* different counter values have different labels.
C31_ReturnLabelsDistinct ==
    [][/\ asm'.fresh_counter >= asm.fresh_counter
       /\ Cardinality(LabelsUpTo(asm'.fresh_counter)) = asm'.fresh_counter
       /\ (ExpandStmt /\ Head(asm.result)[1] = "Call") =>
              LET R == asm'.new_result[Len(asm.new_result) + 1][2][2]
              IN  /\ asm'.new_result[Len(asm.new_result) + 1] = Simple(Position(R))
                  /\ asm'.new_result[Len(asm'.new_result)] = Simple(Label(R))
                  /\ R \notin LabelsUpTo(asm.fresh_counter)
                  /\ LabelsUpTo(asm'.fresh_counter) = LabelsUpTo(asm.fresh_counter) \cup {R}]_vars

\* the expansion of macro m a / call a / endcall / endmacro / $m L / $m L /
\* call L / endcall: the call block of the source got label_0 in the first
\* pass, the two that come from the invocations of m label_1 and label_2 in
\* the second
C31_Witness ==
    /\ kind = "menvm"
    /\ asm.phase = "expanded"
    /\ asm.statements = <<Macro("m", <<"a">>, <<Call("a", <<>>)>>), CallMacro("m", <<"L">>),
                          CallMacro("m", <<"L">>), Call("L", <<>>)>>
    /\ asm.fresh_counter = 3
    /\ asm.lines = <<Position("label_1"), Position("L"), Lit(GotoInstr), Label("label_1"),
                     Position("label_2"), Position("L"), Lit(GotoInstr), Label("label_2"),
                     Position("label_0"), Position("L"), Lit(GotoInstr), Label("label_0")>>

\* C32: in every store reached by successful unify and disunify
\* instructions, is_unified_value, is_disunified_value and the resolution
\* of a variable have one answer each, whatever the order in which the
\* members of the var_unify sets are visited.
C32_QueryOrderIndependent ==
    Between =>
        \A v \in DOMAIN env.unified :
            /\ Cardinality(var_value_opt(env.unified, v)) = 1
            /\ \A n \in LineInts :
                   /\ Cardinality(is_unified_value(env.unified, v, IntValue(n))) = 1
                   /\ Cardinality(is_disunified_value(env.unified, v, IntValue(n))) = 1

\* C33: a successful gotochoice pops the index and nothing else, puts
\* (index, snapshot) into the slot, where the snapshot is the environment
\* after the pop, with the choicepoint that was in the slot, and leaves the
\* rest of the stack, the store and the fresh counter as they were; the run
\* goes on with the next instruction, not at the index.
C33_GotoChoiceFrame ==
    [][(InstrGotoChoice /\ result'.ok) =>
           LET popped == [env EXCEPT !.data = Tail(env.data)]
           IN  /\ env.data # <<>>
               /\ env'.choicepoint # None
               /\ IsIntValue(Head(env.data)) => env'.choicepoint[1] = Head(env.data)[2]
               /\ env'.choicepoint[2] = popped
               /\ env' = [popped EXCEPT !.choicepoint = env'.choicepoint]
               /\ i' = i + 1
               /\ new_env' = None]_vars

\* a gotochoice with an index other than the next instruction's has just
\* run over a stack item, a fresh counter above 0 and an older choicepoint,
\* all of which are in its snapshot
C33_Witness ==
    /\ kind = "control"
    /\ status = "running"
    /\ result.ok
    /\ new_env = None
    /\ env.choicepoint # None
    /\ env.choicepoint[1] # i
    /\ env.choicepoint[2] = [env EXCEPT !.choicepoint = env.choicepoint[2].choicepoint]
    /\ env.choicepoint[2].choicepoint # None
    /\ env.data # <<>>
    /\ env.fresh_counter > 0

\* C34: every fetch reads instrs[i] with 0 <= i < instrs.len(), for every
\* program, the empty one included, also after a goto or a rollback to an
\* index at or past the end; a run that has halted normally has
\* i >= instrs.len(), and no fetch panics.
C34_FetchInBounds ==
    /\ status = "running" => (0 <= i /\ i < len)
    /\ status = "ok" => i >= len
    /\ status # "abort"

\* the names of the macros that the statements of stmts invoke
Invoked(stmts) ==
    {stmts[k][2] : k \in {j \in 1..Len(stmts) : stmts[j][1] = "CallMacro"}}

\* every invocation of the program is of a macro that is defined when the
\* invocation is expanded: an invocation among the statements has its macro
\* declared before it, an invocation in the body of a macro has its macro
\* declared somewhere in the program
InvokedDefined(stmts) ==
    LET Declared(n) == {stmts[k][2] : k \in {j \in 1..n : stmts[j][1] = "Macro"}}
    IN  \A k \in 1..Len(stmts) :
            /\ stmts[k][1] = "CallMacro" => stmts[k][2] \in Declared(k - 1)
            /\ stmts[k][1] = "Macro" => Invoked(stmts[k][4]) \subseteq Declared(Len(stmts))

\* C35: for every macro program in which every invoked macro is defined,
\* the pass loop eventually stops and returns simple instructions only.
C35_ExpansionTerminates ==
    InvokedDefined(asm.statements) =>
        <>(/\ asm.phase = "expanded"
           /\ \A k \in 1..Len(asm.lines) :
                  asm.lines[k][1] \in {"Lit", "Label", "Position", "Quote", "Noop"})

\* C7: between two instructions no two variables are transitively both
\* unified and disunified: no C is reachable from A through var_unify edges
\* while a member of A's class lists a member of C's class in its
\* var_disunify.
C7_NoTransitiveConflict ==
    Between =>
        \A A \in DOMAIN env.unified :
            \A C \in Class(env.unified, A) :
                \A P \in Class(env.unified, A) \cap DOMAIN env.unified :
                    env.unified[P].var_disunify \cap Class(env.unified, C) = {}

\* C8: between two instructions at most one distinct value_unify appears
\* across a var_unify class.
C8_OneValuePerClass ==
    Between =>
        \A A \in DOMAIN env.unified :
            \A B \in Class(env.unified, A) \cap DOMAIN env.unified :
                \/ env.unified[A].value_unify = None
                \/ env.unified[B].value_unify = None
                \/ env.unified[A].value_unify = env.unified[B].value_unify

\* C5: between two instructions var_unify is symmetric and closed over the
\* store: if B is in A's var_unify then B has a record and A is in B's
\* var_unify.
C5_VarUnifySymmetric ==
    Between =>
        \A A \in DOMAIN env.unified :
            \A B \in env.unified[A].var_unify :
                B \in DOMAIN env.unified /\ A \in env.unified[B].var_unify

\* a rollback has just restored a store that holds a var_unify edge
C5_Witness ==
    /\ status = "running"
    /\ new_env # None
    /\ \E A \in DOMAIN env.unified : env.unified[A].var_unify # {}

\* C6: between two instructions var_disunify is symmetric: if B is in A's
\* var_disunify then B has a record and A is in B's var_disunify.
C6_VarDisunifySymmetric ==
    Between =>
        \A A \in DOMAIN env.unified :
            \A B \in env.unified[A].var_disunify :
                B \in DOMAIN env.unified /\ A \in env.unified[B].var_disunify

\* a rollback has just restored a store that holds a var_disunify edge
C6_Witness ==
    /\ status = "running"
    /\ new_env # None
    /\ \E A \in DOMAIN env.unified : env.unified[A].var_disunify # {}

\* C9: between two instructions no name is in both var_unify and
\* var_disunify of one record.
C9_DirectSetsDisjoint ==
    Between =>
        \A A \in DOMAIN env.unified :
            env.unified[A].var_unify \cap env.unified[A].var_disunify = {}

\* a record that holds both a var_unify and a var_disunify edge, after a
\* successful instruction
C9_Witness ==
    /\ status = "running"
    /\ result.ok
    /\ \E A \in DOMAIN env.unified :
           env.unified[A].var_unify # {} /\ env.unified[A].var_disunify # {}

\* C10: between two instructions no record has its value_unify among its own
\* value_disunify.
C10_ValueNotDisunified ==
    Between =>
        \A A \in DOMAIN env.unified :
            env.unified[A].value_unify # None =>
                ~InSeq(env.unified[A].value_unify[1], env.unified[A].value_disunify)

\* a record bound to a value and disunified from another value
C10_Witness ==
    /\ status = "running"
    /\ result.ok
    /\ \E A \in DOMAIN env.unified :
           env.unified[A].value_unify # None /\ env.unified[A].value_disunify # <<>>

====
